---------------------------- MODULE Spec2Model ----------------------------
(***************************************************************************)
(* A model of ess-three's storage engine (internal/storage/storage.go):    *)
(* FileSystemStorage keeps every object, metadata record and multipart     *)
(* session as files under baseDir, so the state of the engine is the state *)
(* of that directory tree.  The tree is modelled as a function from paths  *)
(* to nodes, the os/filepath calls the engine makes as operators on it,    *)
(* and every Storage method as an operator built from those calls in the   *)
(* order the source makes them.                                            *)
(*                                                                         *)
(* Strings are sequences of tokens (one-character strings, plus a few      *)
(* multi-character tokens such as ".json" that the engine itself appends), *)
(* so that splitting on "/", prefix tests and byte-wise comparison are     *)
(* computed rather than assumed.  LastModified/Created timestamps are not  *)
(* modelled; the clock readings that end up in entity tags and upload ids  *)
(* are.                                                                    *)
(***************************************************************************)
EXTENDS Integers, Sequences, FiniteSets, TLC

VARIABLES
    fs,      \* the directory tree under baseDir: path -> node
    now,     \* the wall clock, in ticks (time.Now())
    nops,    \* number of mutating engine calls made so far
    issued,  \* the upload ids CreateMultipartUpload has returned so far
    last,    \* the engine call made by the last step: operation, arguments, outcome
    procs,   \* in-flight PutObject/GetObject calls of the concurrent specification
    pager    \* a client paging through a listing (listing specification)

vars == <<fs, now, nops, issued, last, procs, pager>>

---------------------------------------------------------------------------
(* Bounds of the model *)

MaxOps == 3            \* mutating engine calls per behaviour
MaxMultipartOps == 4   \* the same, in the multipart specification
MaxClock == 2          \* the clock runs from 0 to MaxClock ticks
TicksPerSecond == 2    \* clock ticks per Unix second
MaxPartNumber == 2     \* part numbers run from 1 to MaxPartNumber
MaxRange == 4          \* range bounds run from -1 to MaxRange
MaxPageSize == 3       \* maxKeys runs from 0 to MaxPageSize
ChunkSize == 2         \* bytes per write of a concurrent io.Copy

---------------------------------------------------------------------------
(* Strings, paths and the directory tree *)

Min(a, b) == IF a < b THEN a ELSE b

\* Byte value of a character token (Go compares strings byte-wise).
Rank(c) == CASE c = "/" -> 47
             [] c = "a" -> 97
             [] c = "b" -> 98
             [] c = "c" -> 99
             [] OTHER -> 0

\* s < t for Go strings.
RECURSIVE StrLess(_, _)
StrLess(s, t) ==
    IF t = <<>> THEN FALSE
    ELSE IF s = <<>> THEN TRUE
    ELSE IF Head(s) = Head(t) THEN StrLess(Tail(s), Tail(t))
    ELSE Rank(Head(s)) < Rank(Head(t))

\* strings.HasPrefix(s, prefix)
HasPrefix(s, prefix) ==
    Len(prefix) <= Len(s) /\ SubSeq(s, 1, Len(prefix)) = prefix

\* strings.Split(s, "/"): the components between separators, empty ones kept.
RECURSIVE Split(_)
Split(s) ==
    IF s = <<>> THEN << <<>> >>
    ELSE LET rest == Split(Tail(s))
         IN  IF Head(s) = "/" THEN << <<>> >> \o rest
             ELSE << <<Head(s)>> \o Head(rest) >> \o Tail(rest)

\* The ".." components of a path resolved from left to right: each removes the
\* component before it.  (No path of the model climbs above baseDir.)
RECURSIVE Resolve(_, _)
Resolve(done, rest) ==
    IF rest = <<>> THEN done
    ELSE IF Head(rest) = <<"..">> THEN Resolve(SubSeq(done, 1, Len(done) - 1), Tail(rest))
    ELSE Resolve(Append(done, Head(rest)), Tail(rest))

\* filepath.Clean on a path below baseDir: empty components (doubled, leading or
\* trailing separators) are dropped and ".." components resolved.  The alphabet
\* holds no "." of its own, so the rule for "." components never applies.
Clean(s) == Resolve(<<>>, SelectSeq(Split(s), LAMBDA c : c # <<>>))

\* strings.Join of the non-empty elements with "/" (the first half of filepath.Join).
RECURSIVE JoinSep(_)
JoinSep(elems) ==
    IF elems = <<>> THEN <<>>
    ELSE LET rest == JoinSep(Tail(elems))
         IN  IF Head(elems) = <<>> THEN rest
             ELSE IF rest = <<>> THEN Head(elems)
             ELSE Head(elems) \o <<"/">> \o rest

\* filepath.Join(fs.baseDir, elems...): a path is the sequence of its components
\* below baseDir.
Join(elems) == Clean(JoinSep(elems))

\* filepath.Dir
Dir(p) == SubSeq(p, 1, Len(p) - 1)

\* filepath.Ext(path) == ".json"
HasJsonExt(p) == p # <<>> /\ p[Len(p)] # <<>> /\ p[Len(p)][Len(p[Len(p)])] = ".json"

Root == <<>>
NodeDir == [kind |-> "dir", data |-> <<>>]
RawFile(bytes) == [kind |-> "raw", data |-> bytes]
\* A file holding one JSON document (json.Encoder.Encode writes it in one Write).
JsonFile(doc) == [kind |-> "json", data |-> <<doc>>]

EmptyFS == [p \in {} |-> NodeDir]

Ancestors(p) == {SubSeq(p, 1, i) : i \in 0 .. Len(p) - 1}
IsUnder(p, q) == Len(p) <= Len(q) /\ SubSeq(q, 1, Len(p)) = p
Exists(f, p) == p = Root \/ p \in DOMAIN f
IsDir(f, p) == p = Root \/ (p \in DOMAIN f /\ f[p].kind = "dir")
IsFile(f, p) == p \in DOMAIN f /\ f[p].kind # "dir"
Children(f, p) == {q \in DOMAIN f : Len(q) = Len(p) + 1 /\ IsUnder(p, q)}

\* os.Stat / os.Open: "" on success, else the errno (os.IsNotExist holds of ENOENT only).
Lookup(f, p) ==
    IF Exists(f, p) THEN ""
    ELSE IF \E q \in Ancestors(p) : IsFile(f, q) THEN "ENOTDIR"
    ELSE "ENOENT"

\* os.MkdirAll(p, 0755): fails when p or one of its ancestors is a regular file,
\* and then creates nothing.
MkdirAllOK(f, p) == \A q \in Ancestors(p) \cup {p} : ~IsFile(f, q)
MkdirAll(f, p) ==
    [q \in DOMAIN f \cup ((Ancestors(p) \cup {p}) \ {Root}) |->
        IF q \in DOMAIN f THEN f[q] ELSE NodeDir]

\* os.Create(p): O_RDWR|O_CREATE|O_TRUNC.
CreateOK(f, p) == p # Root /\ IsDir(f, Dir(p)) /\ ~IsDir(f, p)
Create(f, p) == [q \in DOMAIN f \cup {p} |-> IF q = p THEN RawFile(<<>>) ELSE f[q]]

\* The file at p with its content replaced.
WriteFile(f, p, node) == [f EXCEPT ![p] = node]

\* os.Remove(p): unlink, then rmdir; "" on success.
RemoveErr(f, p) ==
    IF ~Exists(f, p) THEN Lookup(f, p)
    ELSE IF IsDir(f, p) /\ Children(f, p) # {} THEN "ENOTEMPTY"
    ELSE ""
Remove(f, p) == [q \in DOMAIN f \ {p} |-> f[q]]

\* os.RemoveAll(p): p and everything below it; an absent p is no error.
RemoveAll(f, p) == [q \in {r \in DOMAIN f : ~IsUnder(p, r)} |-> f[q]]

---------------------------------------------------------------------------
(* Values the engine stores *)

Ret(f, err, val) == [fs |-> f, err |-> err, val |-> val]
NoVal == <<>>

\* A copy that loses the last byte of the stream and reports no error.
\* (Compared with IoCopy below when the round trip is checked.)
IoCopyShort(data) ==
    [bytes |-> SubSeq(data.bytes, 1, Len(data.bytes) - 1), failed |-> FALSE]

\* io.Copy(dst, data) from a reader that delivers data.bytes[1..data.fail] and then
\* an error (data.fail = -1: delivers everything, then io.EOF).
IoCopy(data) ==
    IF data.fail < 0 THEN [bytes |-> data.bytes, failed |-> FALSE]
    ELSE [bytes |-> SubSeq(data.bytes, 1, data.fail), failed |-> TRUE]

\* time.Now().Unix() of a clock reading
Unix(t) == t \div TicksPerSecond

\* json.Encoder.Encode / json.Decoder.Decode of a struct: the document holds the
\* exported fields under their json tags.
EncodeJSON(doc) == JsonFile(doc)
DecodeOK(node) == node.kind = "json"
DecodeJSON(node) == node.data[1]

\* objectPath, metadataPath
ObjectPath(bucket, key) == Join(<<bucket, <<"objects">>, key>>)
MetadataPath(bucket, key) == Join(<<bucket, <<"metadata">>, key \o <<".json">> >>)

\* fmt.Sprintf("\"%d-%d\"", size, time.Now().Unix())
PutETag(size, t) == <<"%d-%d", size, Unix(t)>>

---------------------------------------------------------------------------
(* Objects *)

\* A put that leaves the metadata record of an earlier put of the key in place.
\* (Compared with PutObject below when overwrites are checked.)
PutObjectKeepRecord(f, t, bucket, key, data, metadata, contentType) ==
    LET objPath == ObjectPath(bucket, key)
        metaPath == MetadataPath(bucket, key)
    IN
    IF ~MkdirAllOK(f, Dir(objPath))
    THEN Ret(f, "failed to create object directory", NoVal)
    ELSE LET f1 == MkdirAll(f, Dir(objPath)) IN
    IF ~MkdirAllOK(f1, Dir(metaPath))
    THEN Ret(f1, "failed to create metadata directory", NoVal)
    ELSE LET f2 == MkdirAll(f1, Dir(metaPath)) IN
    IF ~CreateOK(f2, objPath)
    THEN Ret(f2, "failed to create object file", NoVal)
    ELSE LET cp == IoCopy(data)
             f3 == WriteFile(Create(f2, objPath), objPath, RawFile(cp.bytes))
         IN
    IF cp.failed
    THEN Ret(f3, "failed to write object data", NoVal)
    ELSE LET objMeta == [key |-> key,
                         size |-> Len(cp.bytes),
                         etag |-> PutETag(Len(cp.bytes), t),
                         content_type |-> contentType,
                         metadata |-> metadata]
         IN
    IF IsFile(f3, metaPath)
    THEN Ret(f3, "", objMeta)
    ELSE IF ~CreateOK(f3, metaPath)
    THEN Ret(f3, "failed to create metadata file", NoVal)
    ELSE Ret(WriteFile(Create(f3, metaPath), metaPath, EncodeJSON(objMeta)), "", objMeta)

PutObject(f, t, bucket, key, data, metadata, contentType) ==
    LET objPath == ObjectPath(bucket, key)
        metaPath == MetadataPath(bucket, key)
    IN
    IF ~MkdirAllOK(f, Dir(objPath))
    THEN Ret(f, "failed to create object directory", NoVal)
    ELSE LET f1 == MkdirAll(f, Dir(objPath)) IN
    IF ~MkdirAllOK(f1, Dir(metaPath))
    THEN Ret(f1, "failed to create metadata directory", NoVal)
    ELSE LET f2 == MkdirAll(f1, Dir(metaPath)) IN
    IF ~CreateOK(f2, objPath)
    THEN Ret(f2, "failed to create object file", NoVal)
    ELSE LET cp == IoCopy(data)
             f3 == WriteFile(Create(f2, objPath), objPath, RawFile(cp.bytes))
         IN
    IF cp.failed
    THEN Ret(f3, "failed to write object data", NoVal)
    ELSE LET objMeta == [key |-> key,
                         size |-> Len(cp.bytes),
                         etag |-> PutETag(Len(cp.bytes), t),
                         content_type |-> contentType,
                         metadata |-> metadata]
         IN
    IF ~CreateOK(f3, metaPath)
    THEN Ret(f3, "failed to create metadata file", NoVal)
    ELSE Ret(WriteFile(Create(f3, metaPath), metaPath, EncodeJSON(objMeta)), "", objMeta)

GetObject(f, bucket, key) ==
    LET objPath == ObjectPath(bucket, key)
        metaPath == MetadataPath(bucket, key)
    IN
    IF Lookup(f, objPath) = "ENOENT"
    THEN Ret(f, "object not found", NoVal)
    ELSE IF Lookup(f, metaPath) # ""
    THEN Ret(f, "failed to read metadata", NoVal)
    ELSE IF ~DecodeOK(f[metaPath])
    THEN Ret(f, "failed to decode metadata", NoVal)
    ELSE IF Lookup(f, objPath) # ""
    THEN Ret(f, "failed to open object", NoVal)
    ELSE Ret(f, "", [meta |-> DecodeJSON(f[metaPath]), body |-> f[objPath].data])

HeadObject(f, bucket, key) ==
    LET metaPath == MetadataPath(bucket, key) IN
    IF Lookup(f, metaPath) = "ENOENT"
    THEN Ret(f, "object not found", NoVal)
    ELSE IF Lookup(f, metaPath) # ""
    THEN Ret(f, "failed to read metadata", NoVal)
    ELSE IF ~DecodeOK(f[metaPath])
    THEN Ret(f, "failed to decode metadata", NoVal)
    ELSE Ret(f, "", DecodeJSON(f[metaPath]))

\* A delete that removes the object file and leaves the metadata record.
\* (Compared with DeleteObject below when deleted objects are checked.)
DeleteBytesOnly(f, bucket, key) ==
    LET objPath == ObjectPath(bucket, key) IN
    IF RemoveErr(f, objPath) \notin {"", "ENOENT"}
    THEN Ret(f, "failed to delete object", NoVal)
    ELSE Ret(IF RemoveErr(f, objPath) = "" THEN Remove(f, objPath) ELSE f, "", NoVal)

DeleteObject(f, bucket, key) ==
    LET objPath == ObjectPath(bucket, key)
        metaPath == MetadataPath(bucket, key)
    IN
    IF RemoveErr(f, objPath) \notin {"", "ENOENT"}
    THEN Ret(f, "failed to delete object", NoVal)
    ELSE LET f1 == IF RemoveErr(f, objPath) = "" THEN Remove(f, objPath) ELSE f IN
    IF RemoveErr(f1, metaPath) \notin {"", "ENOENT"}
    THEN Ret(f1, "failed to delete metadata", NoVal)
    ELSE Ret(IF RemoveErr(f1, metaPath) = "" THEN Remove(f1, metaPath) ELSE f1, "", NoVal)

---------------------------------------------------------------------------
(* Range reads *)

\* The bounds GetObjectRange serves for a file of fileSize bytes: rangeEnd is
\* moved to the last byte when negative or beyond it, rangeStart to 0 when negative.
\* An adjustment that lets an end beyond the file through.  (Compared with
\* ClampEnd below when the clamping of ranges is checked.)
ClampEndOpen(rangeEnd, fileSize) == IF rangeEnd < 0 THEN fileSize - 1 ELSE rangeEnd

ClampEnd(rangeEnd, fileSize) ==
    IF rangeEnd < 0 \/ rangeEnd >= fileSize THEN fileSize - 1 ELSE rangeEnd
ClampStart(rangeStart) == IF rangeStart < 0 THEN 0 ELSE rangeStart

\* file.Seek(start, 0) followed by io.LimitReader(file, n), read to the end.
ReadAt(bytes, start, n) == SubSeq(bytes, start + 1, Min(Len(bytes), start + n))

\* A limit that leaves out the byte at `end`.  (Compared with RangeLimit below
\* when the bytes of a range are checked.)
RangeLimitExclusive(start, end) == end - start

\* The number of bytes the limited reader may deliver.
RangeLimit(start, end) == end - start + 1

\* fileInfo.Size(): the length of a regular file; of a directory, whatever the
\* file system reports (dirSize).
StatSize(f, p, dirSize) == IF IsDir(f, p) THEN dirSize ELSE Len(f[p].data)

GetObjectRange(f, bucket, key, rangeStart, rangeEnd, dirSize) ==
    LET objPath == ObjectPath(bucket, key)
        metaPath == MetadataPath(bucket, key)
    IN
    IF Lookup(f, objPath) = "ENOENT"
    THEN Ret(f, "object not found", NoVal)
    ELSE IF Lookup(f, objPath) # ""
    THEN Ret(f, "panic: nil FileInfo", NoVal)
    ELSE LET fileSize == StatSize(f, objPath, dirSize)
             end == ClampEnd(rangeEnd, fileSize)
             start == ClampStart(rangeStart)
         IN
    IF start > end
    THEN Ret(f, "invalid range", NoVal)
    ELSE IF Lookup(f, metaPath) # ""
    THEN Ret(f, "failed to read metadata", NoVal)
    ELSE IF ~DecodeOK(f[metaPath])
    THEN Ret(f, "failed to decode metadata", NoVal)
    ELSE Ret(f, "", [meta |-> DecodeJSON(f[metaPath]),
                     body |-> ReadAt(f[objPath].data, start, RangeLimit(start, end)),
                     start |-> start,
                     end |-> end])

\* handleGetObject, handleHeadObject: the error sent for an engine error, chosen by
\* strings.Contains(err.Error(), "not found").  (Of the messages the three read
\* calls return, "object not found" alone contains it.)
ReadErrorCode(err) ==
    IF err = "" THEN ""
    ELSE IF err = "object not found" THEN "NoSuchKey"
    ELSE "InternalError"

---------------------------------------------------------------------------
(* Listing *)

\* filepath.Walk(metadataDir, ...): the metadata records of every regular file
\* with extension .json below the bucket's metadata directory that decodes,
\* filtered by prefix.  An absent directory yields nothing.
WalkMetadata(f, bucket, prefix) ==
    LET metadataDir == Join(<<bucket, <<"metadata">> >>)
        files == {p \in DOMAIN f : IsUnder(metadataDir, p) /\ IsFile(f, p)
                                   /\ HasJsonExt(p) /\ DecodeOK(f[p])}
    IN  {d \in {DecodeJSON(f[p]) : p \in files} :
            prefix = <<>> \/ HasPrefix(d.key, prefix)}

\* sort.Slice(objects, Key less): ascending by key.  (Among records with equal
\* keys sort.Slice fixes no order; the paths of distinct metadata files written
\* by the engine hold distinct keys.)
RECURSIVE SortByKey(_)
SortByKey(S) ==
    IF S = {} THEN <<>>
    ELSE LET m == CHOOSE x \in S : \A y \in S : ~StrLess(y.key, x.key)
         IN  <<m>> \o SortByKey(S \ {m})

listAllObjects(f, bucket, prefix) == SortByKey(WalkMetadata(f, bucket, prefix))

\* maxKeys <= 0 selects the default page size
DefaultMaxKeys == 1000
\* A page size taken as given.  (Compared with EffectiveMaxKeys below when the
\* default page size is checked.)
EffectiveMaxKeysAsGiven(maxKeys) == maxKeys
EffectiveMaxKeys(maxKeys) == IF maxKeys <= 0 THEN DefaultMaxKeys ELSE maxKeys

\* A marker loop that stops at the cursor itself when it is listed.  (Compared
\* with StartIdx below when paging is checked.)
StartIdxAtCursor(allObjects, cursor) ==
    IF cursor # <<>> /\ \E i \in 1 .. Len(allObjects) : ~StrLess(allObjects[i].key, cursor)
    THEN (CHOOSE i \in 1 .. Len(allObjects) :
             /\ ~StrLess(allObjects[i].key, cursor)
             /\ \A j \in 1 .. i - 1 : StrLess(allObjects[j].key, cursor)) - 1
    ELSE 0

\* The marker loop: the (0-based) index of the first object whose key is greater
\* than the cursor; 0 when the cursor is empty or the loop finds none.
StartIdx(allObjects, cursor) ==
    IF cursor # <<>> /\ \E i \in 1 .. Len(allObjects) : StrLess(cursor, allObjects[i].key)
    THEN (CHOOSE i \in 1 .. Len(allObjects) :
             /\ StrLess(cursor, allObjects[i].key)
             /\ \A j \in 1 .. i - 1 : ~StrLess(cursor, allObjects[j].key)) - 1
    ELSE 0

\* The page cut out of the sorted listing, shared by both list calls:
\* objects, isTruncated and the key of the last object when truncated.
Page(allObjects, cursor, maxKeys) ==
    LET startIdx == StartIdx(allObjects, cursor)
        endIdx0 == startIdx + EffectiveMaxKeys(maxKeys)
        isTruncated == endIdx0 < Len(allObjects)
        endIdx == IF endIdx0 > Len(allObjects) THEN Len(allObjects) ELSE endIdx0
        pageObjects == SubSeq(allObjects, startIdx + 1, endIdx)
    IN  [objects |-> pageObjects,
         truncated |-> isTruncated,
         next |-> IF isTruncated /\ Len(pageObjects) > 0
                  THEN pageObjects[Len(pageObjects)].key ELSE <<>>]

ListObjects(f, bucket, prefix, marker, maxKeys) ==
    LET pg == Page(listAllObjects(f, bucket, prefix), marker, maxKeys)
    IN  Ret(f, "", [Objects |-> pg.objects, IsTruncated |-> pg.truncated,
                    NextMarker |-> pg.next, NextContinuationToken |-> <<>>])

\* A token listing that starts at the token itself when it is listed.  (Compared
\* with ListObjectsV2 below when the two list calls are compared.)
ListObjectsV2AtToken(f, bucket, prefix, continuationToken, maxKeys) ==
    LET all == listAllObjects(f, bucket, prefix)
        startIdx == StartIdxAtCursor(all, continuationToken)
        endIdx0 == startIdx + EffectiveMaxKeys(maxKeys)
        endIdx == IF endIdx0 > Len(all) THEN Len(all) ELSE endIdx0
        pageObjects == SubSeq(all, startIdx + 1, endIdx)
    IN  Ret(f, "", [Objects |-> pageObjects, IsTruncated |-> endIdx0 < Len(all),
                    NextMarker |-> <<>>,
                    NextContinuationToken |->
                        IF endIdx0 < Len(all) /\ Len(pageObjects) > 0
                        THEN pageObjects[Len(pageObjects)].key ELSE <<>>])

ListObjectsV2(f, bucket, prefix, continuationToken, maxKeys) ==
    LET pg == Page(listAllObjects(f, bucket, prefix), continuationToken, maxKeys)
    IN  Ret(f, "", [Objects |-> pg.objects, IsTruncated |-> pg.truncated,
                    NextMarker |-> <<>>, NextContinuationToken |-> pg.next])

---------------------------------------------------------------------------
(* Multipart uploads *)

DecDigit == <<"0", "1", "2", "3", "4", "5", "6", "7", "8", "9">>
HexDigit == DecDigit \o <<"a", "b", "c", "d", "e", "f">>

\* fmt.Sprintf("%d", n) and fmt.Sprintf("%x", n) for n >= 0
RECURSIVE Dec(_)
Dec(n) == IF n < 10 THEN <<DecDigit[n + 1]>> ELSE Dec(n \div 10) \o <<DecDigit[(n % 10) + 1]>>
RECURSIVE Hex(_)
Hex(n) == IF n < 16 THEN <<HexDigit[n + 1]>> ELSE Hex(n \div 16) \o <<HexDigit[(n % 16) + 1]>>

\* fmt.Sprintf("%05d", n) for n >= 0: zero-padded to five digits
RECURSIVE PadLeft(_, _)
PadLeft(s, width) == IF Len(s) >= width THEN s ELSE PadLeft(<<"0">> \o s, width)
Pad5(n) == PadLeft(Dec(n), 5)

\* generateRandomID(): the clock reading in hexadecimal
generateRandomID(t) == Hex(t)

\* fmt.Sprintf("%d-%s", time.Now().UnixNano(), generateRandomID())
NewUploadID(t1, t2) == Dec(t1) \o <<"-">> \o generateRandomID(t2)

\* multipartPath: the key takes no part in it
MultipartPath(bucket, key, uploadID) == Join(<<bucket, <<"multipart">>, uploadID>>)

\* filepath.Join(dir, name) for a name without separators
JoinName(dir, name) == Append(dir, name)
UploadJson == <<"upload", ".json">>
\* A part file name that leaves the part number out.  (Compared with PartName
\* below when uploads of different parts are checked.)
PartNameShared(partNumber) == <<"part-">> \o Pad5(0)
PartName(partNumber) == <<"part-">> \o Pad5(partNumber)
PartMetaName(partNumber) == <<"part-">> \o Pad5(partNumber) \o <<".json">>

\* hex.EncodeToString(md5.Sum(bytes)): a function of the bytes alone, taken to be
\* collision-free on the payloads of the model.
Md5Hex(bytes) == [md5 |-> bytes]

\* The zero MultipartUpload left in `upload` when decoding upload.json fails
\* (CompleteMultipartUpload ignores the decoder's error).
ZeroUpload == [upload_id |-> <<>>, bucket |-> <<>>, key |-> <<>>,
               content_type |-> "", metadata |-> <<>>]

CreateMultipartUpload(f, t1, t2, bucket, key, contentType, metadata) ==
    LET uploadID == NewUploadID(t1, t2)
        upload == [upload_id |-> uploadID, bucket |-> bucket, key |-> key,
                   content_type |-> contentType, metadata |-> metadata]
        mpPath == MultipartPath(bucket, key, uploadID)
        metaPath == JoinName(mpPath, UploadJson)
    IN
    IF ~MkdirAllOK(f, mpPath)
    THEN Ret(f, "failed to create multipart directory", NoVal)
    ELSE LET f1 == MkdirAll(f, mpPath) IN
    IF ~CreateOK(f1, metaPath)
    THEN Ret(f1, "failed to create upload metadata", NoVal)
    ELSE Ret(WriteFile(Create(f1, metaPath), metaPath, EncodeJSON(upload)), "", upload)

\* An upload that leaves the record of an earlier upload of the same part number
\* in place.  (Compared with UploadPart below when re-uploads are checked.)
UploadPartKeepRecord(f, bucket, key, uploadID, partNumber, data) ==
    LET mpPath == MultipartPath(bucket, key, uploadID)
        partPath == JoinName(mpPath, PartName(partNumber))
        partMetaPath == JoinName(mpPath, PartMetaName(partNumber))
    IN
    IF Lookup(f, JoinName(mpPath, UploadJson)) = "ENOENT"
    THEN Ret(f, "upload not found", NoVal)
    ELSE IF ~CreateOK(f, partPath)
    THEN Ret(f, "failed to create part file", NoVal)
    ELSE LET cp == IoCopy(data)
             f1 == WriteFile(Create(f, partPath), partPath, RawFile(cp.bytes))
             part == [part_number |-> partNumber,
                      etag |-> Md5Hex(cp.bytes),
                      size |-> Len(cp.bytes)]
         IN
    IF cp.failed
    THEN Ret(f1, "failed to write part data", NoVal)
    ELSE IF IsFile(f1, partMetaPath)
    THEN Ret(f1, "", part)
    ELSE IF ~CreateOK(f1, partMetaPath)
    THEN Ret(f1, "failed to create part metadata", NoVal)
    ELSE Ret(WriteFile(Create(f1, partMetaPath), partMetaPath, EncodeJSON(part)), "", part)

\* An upload whose tag takes the part number in beside the bytes.  (Compared with
\* UploadPart below when part tags are checked.)
UploadPartNumberedTag(f, bucket, key, uploadID, partNumber, data) ==
    LET mpPath == MultipartPath(bucket, key, uploadID)
        partPath == JoinName(mpPath, PartName(partNumber))
        partMetaPath == JoinName(mpPath, PartMetaName(partNumber))
    IN
    IF Lookup(f, JoinName(mpPath, UploadJson)) = "ENOENT"
    THEN Ret(f, "upload not found", NoVal)
    ELSE IF ~CreateOK(f, partPath)
    THEN Ret(f, "failed to create part file", NoVal)
    ELSE LET cp == IoCopy(data)
             f1 == WriteFile(Create(f, partPath), partPath, RawFile(cp.bytes))
         IN
    IF cp.failed
    THEN Ret(f1, "failed to write part data", NoVal)
    ELSE LET part == [part_number |-> partNumber,
                      etag |-> Md5Hex(<<partNumber>> \o cp.bytes),
                      size |-> Len(cp.bytes)]
         IN
    IF ~CreateOK(f1, partMetaPath)
    THEN Ret(f1, "failed to create part metadata", NoVal)
    ELSE Ret(WriteFile(Create(f1, partMetaPath), partMetaPath, EncodeJSON(part)), "", part)

UploadPart(f, bucket, key, uploadID, partNumber, data) ==
    LET mpPath == MultipartPath(bucket, key, uploadID)
        partPath == JoinName(mpPath, PartName(partNumber))
        partMetaPath == JoinName(mpPath, PartMetaName(partNumber))
    IN
    IF Lookup(f, JoinName(mpPath, UploadJson)) = "ENOENT"
    THEN Ret(f, "upload not found", NoVal)
    ELSE IF ~CreateOK(f, partPath)
    THEN Ret(f, "failed to create part file", NoVal)
    ELSE LET cp == IoCopy(data)
             f1 == WriteFile(Create(f, partPath), partPath, RawFile(cp.bytes))
         IN
    IF cp.failed
    THEN Ret(f1, "failed to write part data", NoVal)
    ELSE LET part == [part_number |-> partNumber,
                      etag |-> Md5Hex(cp.bytes),
                      size |-> Len(cp.bytes)]
         IN
    IF ~CreateOK(f1, partMetaPath)
    THEN Ret(f1, "failed to create part metadata", NoVal)
    ELSE Ret(WriteFile(Create(f1, partMetaPath), partMetaPath, EncodeJSON(part)), "", part)

\* sort.Slice(parts, PartNumber less): ascending by part number (an insertion sort;
\* the engine reads nothing but the part number of a sorted entry).
RECURSIVE InsertPart(_, _)
InsertPart(sorted, p) ==
    IF sorted = <<>> THEN <<p>>
    ELSE IF p.part_number < Head(sorted).part_number THEN <<p>> \o sorted
    ELSE <<Head(sorted)>> \o InsertPart(Tail(sorted), p)
\* The part list left in the order the caller gave it.
\* (Compared with SortParts below when the assembly order is checked.)
SortPartsAsListed(parts) == parts

RECURSIVE SortParts(_)
SortParts(parts) ==
    IF parts = <<>> THEN <<>>
    ELSE InsertPart(SortParts(SubSeq(parts, 1, Len(parts) - 1)), parts[Len(parts)])

\* The concatenation loop over the sorted parts: each part file is opened and
\* copied onto the end of the final file; the first part that cannot be opened
\* ends the loop with what was copied so far.
RECURSIVE ConcatParts(_, _, _, _)
ConcatParts(f, mpPath, sorted, written) ==
    IF sorted = <<>> THEN [bytes |-> written, err |-> ""]
    ELSE LET partPath == JoinName(mpPath, PartName(Head(sorted).part_number)) IN
         IF Lookup(f, partPath) # ""
         THEN [bytes |-> written, err |-> "failed to open part"]
         ELSE IF IsDir(f, partPath)
         THEN [bytes |-> written, err |-> "failed to copy part"]
         ELSE ConcatParts(f, mpPath, Tail(sorted), written \o f[partPath].data)

\* fmt.Sprintf("\"%s-%d\"", generateRandomID(), len(parts))
MultipartETag(t, n) == <<"%s-%d", generateRandomID(t), n>>

\* CompleteMultipartUpload once upload.json has been read: the final object file
\* is created (truncated), the sorted parts are copied into it, and the metadata
\* record is written.
AssembleObject(f, t, bucket, key, mpPath, upload, parts) ==
    LET objPath == ObjectPath(bucket, key)
        metaObjPath == MetadataPath(bucket, key)
    IN
    IF ~MkdirAllOK(f, Dir(objPath))
    THEN Ret(f, "failed to create object directory", NoVal)
    ELSE LET f1 == MkdirAll(f, Dir(objPath)) IN
    IF ~CreateOK(f1, objPath)
    THEN Ret(f1, "failed to create final object", NoVal)
    ELSE LET f2 == Create(f1, objPath)
             cat == ConcatParts(f2, mpPath, SortParts(parts), <<>>)
             f3 == WriteFile(f2, objPath, RawFile(cat.bytes))
         IN
    IF cat.err # ""
    THEN Ret(f3, cat.err, NoVal)
    ELSE LET objMeta == [key |-> key,
                         size |-> Len(cat.bytes),
                         etag |-> MultipartETag(t, Len(parts)),
                         content_type |-> upload.content_type,
                         metadata |-> upload.metadata]
         IN
    IF ~MkdirAllOK(f3, Dir(metaObjPath))
    THEN Ret(f3, "failed to create metadata directory", NoVal)
    ELSE LET f4 == MkdirAll(f3, Dir(metaObjPath)) IN
    IF ~CreateOK(f4, metaObjPath)
    THEN Ret(f4, "failed to create object metadata", NoVal)
    ELSE Ret(WriteFile(Create(f4, metaObjPath), metaObjPath, EncodeJSON(objMeta)), "", objMeta)

\* The session directory removed on every way out of the call, as a deferred
\* clean-up would remove it.  (Compared with CleanUp below when a failed
\* completion is checked.)
CleanUpAlways(r, mpPath) == Ret(RemoveAll(r.fs, mpPath), r.err, r.val)

\* The session directory left in place.  (Compared with CleanUp below when a
\* successful completion is checked.)
CleanUpNever(r, mpPath) == r

\* The last statements of CompleteMultipartUpload, reached only when nothing before
\* them returned an error: the session directory is removed.
CleanUp(r, mpPath) ==
    IF r.err = "" THEN Ret(RemoveAll(r.fs, mpPath), "", r.val) ELSE r

CompleteMultipartUpload(f, t, bucket, key, uploadID, parts) ==
    LET mpPath == MultipartPath(bucket, key, uploadID)
        metaPath == JoinName(mpPath, UploadJson)
    IN
    IF Lookup(f, metaPath) # ""
    THEN Ret(f, "upload not found", NoVal)
    ELSE CleanUp(AssembleObject(f, t, bucket, key, mpPath,
                                IF DecodeOK(f[metaPath]) THEN DecodeJSON(f[metaPath])
                                                         ELSE ZeroUpload,
                                parts),
                 mpPath)

\* handleCompleteMultipartUpload: the error code sent for an engine error
CompleteErrorCode(err) == IF err = "" THEN "" ELSE "InternalError"

\* An abort that removes upload.json and leaves the part files where they are.
\* (Compared with AbortMultipartUpload below when the clean-up of an abort is
\* checked.)
AbortRecordOnly(f, bucket, key, uploadID) ==
    Ret([q \in DOMAIN f \ {JoinName(MultipartPath(bucket, key, uploadID), UploadJson)} |-> f[q]],
        "", NoVal)

\* An abort that reports a session it does not find, as os.Remove would.
\* (Compared with AbortMultipartUpload below when repeated aborts are checked.)
AbortStrict(f, bucket, key, uploadID) ==
    IF Exists(f, MultipartPath(bucket, key, uploadID))
    THEN Ret(RemoveAll(f, MultipartPath(bucket, key, uploadID)), "", NoVal)
    ELSE Ret(f, "upload not found", NoVal)

AbortMultipartUpload(f, bucket, key, uploadID) ==
    Ret(RemoveAll(f, MultipartPath(bucket, key, uploadID)), "", NoVal)

\* handleAbortMultipartUpload: the response sent for the engine's result
AbortResponse(err) == IF err = "" THEN "204 No Content" ELSE "500 InternalError"

\* The part records ListParts decodes: every entry of the session directory whose
\* name ends in ".json", upload.json excepted, that decodes.
PartRecords(f, mpPath) ==
    {DecodeJSON(f[p]) : p \in {q \in Children(f, mpPath) :
        /\ HasJsonExt(q)
        /\ q[Len(q)] # UploadJson
        /\ DecodeOK(f[q])}}

\* The records in ascending part-number order (sort.Slice over the directory
\* listing; part-N.json holds part number N, so no two records share a number).
RECURSIVE SortRecords(_)
SortRecords(S) ==
    IF S = {} THEN <<>>
    ELSE LET m == CHOOSE x \in S : \A y \in S : x.part_number <= y.part_number
         IN  <<m>> \o SortRecords(S \ {m})

ListParts(f, bucket, key, uploadID) ==
    LET mpPath == MultipartPath(bucket, key, uploadID) IN
    IF Lookup(f, JoinName(mpPath, UploadJson)) = "ENOENT"
    THEN Ret(f, "upload not found", NoVal)
    ELSE IF ~IsDir(f, mpPath)
    THEN Ret(f, "failed to read multipart directory", NoVal)
    ELSE Ret(f, "", SortRecords(PartRecords(f, mpPath)))


---------------------------------------------------------------------------
(* The callers' inputs *)

Buckets == {<<"bkt">>}
KeyA == <<"a">>
KeyAB == <<"a", "/", "b">>
KeyB == <<"b">>
Keys == {KeyA, KeyAB, KeyB}

PayloadX == <<1, 2, 3>>
PayloadY == <<4, 5>>
Payloads == {PayloadX, PayloadY}

\* Content type and custom metadata (a map, as its set of key/value pairs) of a request
AttrsText == [ct |-> "text/plain", md |-> {<<"author", "test">>}]
AttrsPng == [ct |-> "image/png", md |-> {}]

\* Request bodies: a reader that delivers its bytes in full (fail = -1), and one
\* that fails after the first byte.
Full(p) == [bytes |-> p, fail |-> -1]
Streams == {Full(p) : p \in Payloads} \cup {[bytes |-> PayloadX, fail |-> 1]}

\* PutObject requests: body, custom metadata and content type
PutRequests ==
    {[data |-> Full(PayloadX), attrs |-> AttrsText],
     [data |-> Full(PayloadY), attrs |-> AttrsPng],
     [data |-> [bytes |-> PayloadX, fail |-> 1], attrs |-> AttrsPng]}

\* CreateMultipartUpload requests
CreateRequests ==
    {[key |-> KeyA, attrs |-> AttrsText],
     [key |-> KeyB, attrs |-> AttrsPng],
     [key |-> KeyAB, attrs |-> AttrsPng]}

\* A reading of the clock: the current tick or the next one.
ClockReadings(t) == {t, Min(t + 1, MaxClock)}

\* An upload id no session ever had
UnknownUploadID == <<"n", "o", "n", "e">>
\* The upload ids callers pass: the ones the engine has issued, and an unknown one.
UploadIDs == issued \cup {UnknownUploadID}

\* Upload ids a caller may make up: the empty string, and a relative path that
\* leads from the multipart directory to the bucket's objects directory.
EmptyUploadID == <<>>
TraversalUploadID == <<"..", "/", "objects">>
\* Every upload id of the model.
AnyUploadIDs == UploadIDs \cup {EmptyUploadID, TraversalUploadID}
\* An object key that is also the name of a session's metadata file.
KeyUploadJson == <<"upload", ".json">>

PartNumbers == 1 .. MaxPartNumber
\* The <Part> entries of a completion request: a part number and an entity tag.
PartRefs == [part_number : PartNumbers, etag : {Md5Hex(PayloadX)}]
\* Completion requests: lists of entries with distinct part numbers, in any order.
RECURSIVE ListsOver(_)
ListsOver(numbers) ==
    {<<>>} \cup UNION {{<<r>> \o l : l \in ListsOver(numbers \ {r.part_number})} :
                          r \in {x \in PartRefs : x.part_number \in numbers}}
PartLists == ListsOver(PartNumbers)

\* The multipart specification: sessions for one key.
MultipartKeys == {KeyA}
MultipartCreateRequests == {[key |-> KeyA, attrs |-> AttrsText]}

\* The range specification: objects of every size from 0 to 3 under one key, and
\* range bounds from -1 to MaxRange.
RangeKeys == {KeyA}
RangePutRequests ==
    {[data |-> Full(SubSeq(PayloadX, 1, n)), attrs |-> AttrsText] : n \in 0 .. 3}
        \cup {[data |-> [bytes |-> PayloadX, fail |-> 1], attrs |-> AttrsPng]}
RangeBounds == -1 .. MaxRange
\* The sizes a file system reports for a directory: nothing, or a block (larger
\* than every range bound).
DirSizes == {0, MaxRange + 1}

---------------------------------------------------------------------------
(* The engine called by one client at a time.  A behaviour makes a bounded
   number of mutating calls; the calls that only read change nothing, so a
   behaviour makes one of them last, in any reachable state. *)

Idle == [state |-> "idle"]

\* The callers of the concurrent specification: two writers and a reader.
Writers == {"w1", "w2"}
Reader == "r"
\* A caller's position in its call, the values the call holds, and (prev, allowed,
\* overlap) what the properties need to know about the calls it overlapped.
IdleProc == [pc |-> "idle", off |-> 0, meta |-> NoVal, body |-> <<>>, err |-> "",
             prev |-> NoVal, allowed |-> {}, overlap |-> FALSE]

ReadOps == {"GetObject", "HeadObject", "GetObjectRange", "ListParts",
            "ListObjects", "ListObjectsV2"}
MayRead == last.op \notin ReadOps
MayMutate(limit) == nops < limit /\ MayRead

Init ==
    /\ fs = EmptyFS
    /\ now = 0
    /\ nops = 0
    /\ issued = {}
    /\ last = [op |-> "NewFileSystemStorage", err |-> ""]
    /\ procs = [p \in Writers \cup {Reader} |-> IdleProc]
    /\ pager = Idle

PutObjectCall(limit, keys, requests) ==
    /\ MayMutate(limit)
    /\ \E bucket \in Buckets, key \in keys, rq \in requests, t \in ClockReadings(now) :
         \E r \in {PutObject(fs, t, bucket, key, rq.data, rq.attrs.md, rq.attrs.ct)} :
         /\ fs' = r.fs
         /\ now' = t
         /\ last' = [op |-> "PutObject", bucket |-> bucket, key |-> key, data |-> rq.data,
                     metadata |-> rq.attrs.md, contentType |-> rq.attrs.ct,
                     err |-> r.err, val |-> r.val]
    /\ nops' = nops + 1
    /\ UNCHANGED <<issued, procs, pager>>

GetObjectCall(keys) ==
    /\ MayRead
    /\ \E bucket \in Buckets, key \in keys :
         \E r \in {GetObject(fs, bucket, key)} :
         last' = [op |-> "GetObject", bucket |-> bucket, key |-> key,
                  err |-> r.err, val |-> r.val]
    /\ UNCHANGED <<fs, now, nops, issued, procs, pager>>

HeadObjectCall(keys) ==
    /\ MayRead
    /\ \E bucket \in Buckets, key \in keys :
         \E r \in {HeadObject(fs, bucket, key)} :
         last' = [op |-> "HeadObject", bucket |-> bucket, key |-> key,
                  err |-> r.err, val |-> r.val]
    /\ UNCHANGED <<fs, now, nops, issued, procs, pager>>

GetObjectRangeCall(keys, bounds) ==
    /\ MayRead
    /\ \E bucket \in Buckets, key \in keys, start \in bounds, end \in bounds,
          dirSize \in DirSizes :
         \E r \in {GetObjectRange(fs, bucket, key, start, end, dirSize)} :
         last' = [op |-> "GetObjectRange", bucket |-> bucket, key |-> key,
                  start |-> start, end |-> end, err |-> r.err, val |-> r.val]
    /\ UNCHANGED <<fs, now, nops, issued, procs, pager>>

DeleteObjectCall(limit, keys) ==
    /\ MayMutate(limit)
    /\ \E bucket \in Buckets, key \in keys :
         \E r \in {DeleteObject(fs, bucket, key)} :
         /\ fs' = r.fs
         /\ last' = [op |-> "DeleteObject", bucket |-> bucket, key |-> key,
                     err |-> r.err, val |-> r.val]
    /\ nops' = nops + 1
    /\ UNCHANGED <<now, issued, procs, pager>>

CreateMultipartUploadCall(limit, requests) ==
    /\ MayMutate(limit)
    /\ \E bucket \in Buckets, rq \in requests, t1 \in ClockReadings(now) :
       \E t2 \in ClockReadings(t1) :
         \E r \in {CreateMultipartUpload(fs, t1, t2, bucket, rq.key, rq.attrs.ct, rq.attrs.md)} :
         /\ fs' = r.fs
         /\ now' = t2
         /\ issued' = IF r.err = "" THEN issued \cup {r.val.upload_id} ELSE issued
         /\ last' = [op |-> "CreateMultipartUpload", bucket |-> bucket, key |-> rq.key,
                     metadata |-> rq.attrs.md, contentType |-> rq.attrs.ct,
                     err |-> r.err, val |-> r.val]
    /\ nops' = nops + 1
    /\ UNCHANGED <<procs, pager>>

UploadPartCall(limit, keys, streams, ids) ==
    /\ MayMutate(limit)
    /\ \E bucket \in Buckets, key \in keys, uploadID \in ids,
          partNumber \in PartNumbers, data \in streams :
         \E r \in {UploadPart(fs, bucket, key, uploadID, partNumber, data)} :
         /\ fs' = r.fs
         /\ last' = [op |-> "UploadPart", bucket |-> bucket, key |-> key,
                     uploadID |-> uploadID, partNumber |-> partNumber, data |-> data,
                     err |-> r.err, val |-> r.val]
    /\ nops' = nops + 1
    /\ UNCHANGED <<now, issued, procs, pager>>

CompleteMultipartUploadCall(limit, keys, ids) ==
    /\ MayMutate(limit)
    /\ \E bucket \in Buckets, key \in keys, uploadID \in ids, parts \in PartLists,
          t \in ClockReadings(now) :
         \E r \in {CompleteMultipartUpload(fs, t, bucket, key, uploadID, parts)} :
         /\ fs' = r.fs
         /\ now' = t
         /\ last' = [op |-> "CompleteMultipartUpload", bucket |-> bucket, key |-> key,
                     uploadID |-> uploadID, parts |-> parts, err |-> r.err, val |-> r.val]
    /\ nops' = nops + 1
    /\ UNCHANGED <<issued, procs, pager>>

AbortMultipartUploadCall(limit, keys, ids) ==
    /\ MayMutate(limit)
    /\ \E bucket \in Buckets, key \in keys, uploadID \in ids :
         \E r \in {AbortMultipartUpload(fs, bucket, key, uploadID)} :
         /\ fs' = r.fs
         /\ last' = [op |-> "AbortMultipartUpload", bucket |-> bucket, key |-> key,
                     uploadID |-> uploadID, err |-> r.err, val |-> r.val]
    /\ nops' = nops + 1
    /\ UNCHANGED <<now, issued, procs, pager>>

ListPartsCall(keys, ids) ==
    /\ MayRead
    /\ \E bucket \in Buckets, key \in keys, uploadID \in ids :
         \E r \in {ListParts(fs, bucket, key, uploadID)} :
         last' = [op |-> "ListParts", bucket |-> bucket, key |-> key,
                  uploadID |-> uploadID, err |-> r.err, val |-> r.val]
    /\ UNCHANGED <<fs, now, nops, issued, procs, pager>>

\* The general specification: every object and multipart call, on three keys.
DoPutObject == PutObjectCall(MaxOps, Keys, PutRequests)
DoGetObject == GetObjectCall(Keys)
DoHeadObject == HeadObjectCall(Keys)
DoDeleteObject == DeleteObjectCall(MaxOps, Keys)
DoCreateMultipartUpload == CreateMultipartUploadCall(MaxOps, CreateRequests)
DoUploadPart == UploadPartCall(MaxOps, {KeyA}, Streams, UploadIDs)
DoCompleteMultipartUpload == CompleteMultipartUploadCall(MaxOps, Keys, UploadIDs)
DoAbortMultipartUpload == AbortMultipartUploadCall(MaxOps, {KeyA}, UploadIDs)
DoListParts == ListPartsCall({KeyA}, UploadIDs)

Next ==
    \/ DoPutObject
    \/ DoGetObject
    \/ DoHeadObject
    \/ DoListParts
    \/ DoDeleteObject
    \/ DoCreateMultipartUpload
    \/ DoUploadPart
    \/ DoCompleteMultipartUpload
    \/ DoAbortMultipartUpload

Spec == Init /\ [][Next]_vars

\* The multipart specification: longer behaviours of the multipart calls on one key.
MultipartCreate == CreateMultipartUploadCall(MaxMultipartOps, MultipartCreateRequests)
MultipartUploadPart == UploadPartCall(MaxMultipartOps, MultipartKeys, Streams, UploadIDs)
MultipartComplete == CompleteMultipartUploadCall(MaxMultipartOps, MultipartKeys, UploadIDs)
MultipartAbort == AbortMultipartUploadCall(MaxMultipartOps, MultipartKeys, UploadIDs)
MultipartListParts == ListPartsCall(MultipartKeys, UploadIDs)
MultipartGetObject == GetObjectCall(MultipartKeys)

NextMultipart ==
    \/ MultipartCreate
    \/ MultipartUploadPart
    \/ MultipartComplete
    \/ MultipartAbort
    \/ MultipartListParts
    \/ MultipartGetObject

SpecMultipart == Init /\ [][NextMultipart]_vars

\* The upload-id specification: the multipart calls made with upload ids of every
\* kind, on a store that may hold an object named upload.json.
IdsPutObject == PutObjectCall(MaxOps, {KeyUploadJson}, PutRequests)
IdsCreate == CreateMultipartUploadCall(MaxOps, MultipartCreateRequests)
IdsUploadPart == UploadPartCall(MaxOps, MultipartKeys, Streams, AnyUploadIDs)
IdsComplete == CompleteMultipartUploadCall(MaxOps, MultipartKeys, AnyUploadIDs)
IdsAbort == AbortMultipartUploadCall(MaxOps, MultipartKeys, AnyUploadIDs)
IdsListParts == ListPartsCall(MultipartKeys, AnyUploadIDs)

NextIds ==
    \/ IdsPutObject
    \/ IdsCreate
    \/ IdsUploadPart
    \/ IdsComplete
    \/ IdsAbort
    \/ IdsListParts

SpecIds == Init /\ [][NextIds]_vars

\* The range specification: objects of every small size, read by every range.
RangePutObject == PutObjectCall(MaxOps, RangeKeys, RangePutRequests)
RangeDeleteObject == DeleteObjectCall(MaxOps, RangeKeys)
RangeGetObjectRange == GetObjectRangeCall(RangeKeys, RangeBounds)

NextRange ==
    \/ RangePutObject
    \/ RangeDeleteObject
    \/ RangeGetObjectRange

SpecRange == Init /\ [][NextRange]_vars


---------------------------------------------------------------------------
(* Properties of the engine called by one client at a time *)

\* The step is a mutating call of the named operation.
Called(op) == nops' = nops + 1 /\ last'.op = op

\* The step is a call that writes or deletes the object (bucket, key).
WritesObject(bucket, key) ==
    /\ nops' = nops + 1
    /\ last'.op \in {"PutObject", "DeleteObject", "CompleteMultipartUpload"}
    /\ last'.bucket = bucket
    /\ last'.key = key

\* What a reader of (bucket, key) is given in the directory tree f.
Outcome(r) == [err |-> r.err, val |-> r.val]
Reads(f, bucket, key) ==
    [get |-> Outcome(GetObject(f, bucket, key)),
     head |-> Outcome(HeadObject(f, bucket, key))]

\* In f, GetObject of (bucket, key) returns the bytes P with content type C and
\* custom metadata M, and HeadObject reports the size len(P).
Returns(f, bucket, key, P, C, M) ==
    LET rd == Reads(f, bucket, key) IN
    /\ rd.get.err = ""
    /\ rd.get.val.body = P
    /\ rd.get.val.meta.content_type = C
    /\ rd.get.val.meta.metadata = M
    /\ rd.get.val.meta.size = Len(P)
    /\ rd.head.err = ""
    /\ rd.head.val.size = Len(P)

\* The two halves of the round trip: what a successful put establishes, and what
\* every other call preserves.
PutEstablishes ==
    (Called("PutObject") /\ last'.err = "")
        => Returns(fs', last'.bucket, last'.key,
                   last'.data.bytes, last'.contentType, last'.metadata)

OthersPreserve ==
    \A bucket \in Buckets, key \in Keys :
        (~WritesObject(bucket, key) /\ GetObject(fs, bucket, key).err = "")
            => Reads(fs', bucket, key) = Reads(fs, bucket, key)

PartPath(bucket, uploadID, n) ==
    JoinName(MultipartPath(bucket, <<>>, uploadID), PartName(n))

\* The stored bytes of the parts numbered in `numbers`, lowest number first.
RECURSIVE ConcatAscending(_, _, _, _)
ConcatAscending(f, bucket, uploadID, numbers) ==
    IF numbers = {} THEN <<>>
    ELSE LET n == CHOOSE x \in numbers : \A y \in numbers : x <= y IN
         f[PartPath(bucket, uploadID, n)].data
             \o ConcatAscending(f, bucket, uploadID, numbers \ {n})

Referenced(parts) == {parts[i].part_number : i \in 1 .. Len(parts)}

\* The three steps a published multipart object depends on.
UploadStoresPart ==
    (Called("UploadPart") /\ last'.err = "")
        => fs'[PartPath(last'.bucket, last'.uploadID, last'.partNumber)]
               = RawFile(last'.data.bytes)

PartsStay ==
    \A bucket \in Buckets, uploadID \in issued, n \in PartNumbers :
        LET partPath == PartPath(bucket, uploadID, n) IN
        (/\ IsFile(fs, partPath)
         /\ ~(Called("UploadPart") /\ last'.uploadID = uploadID /\ last'.partNumber = n))
            => \/ IsFile(fs', partPath) /\ fs'[partPath] = fs[partPath]
               \/ ~Exists(fs', MultipartPath(bucket, <<>>, uploadID))

CompletePublishesAscending ==
    (Called("CompleteMultipartUpload") /\ last'.err = "")
        => LET get == GetObject(fs', last'.bucket, last'.key) IN
           /\ get.err = ""
           /\ get.val.body = ConcatAscending(fs, last'.bucket, last'.uploadID,
                                             Referenced(last'.parts))
           /\ get.val.meta.size = Len(get.val.body)

\* C2 (multipart ordering): the bytes of an object published by a successful
\* CompleteMultipartUpload are the bytes of the referenced parts concatenated in
\* ascending part-number order, whatever the order the parts were uploaded in and
\* whatever the order the caller listed them in; the bytes of part i are those
\* supplied in the successful UploadPart call for part i.  Stated on steps: a
\* successful UploadPart stores exactly the bytes supplied; a stored part stays
\* as it is until the next UploadPart call for the same part or the end of the
\* session; and a successful completion publishes the stored parts in ascending
\* order of their numbers.
MultipartOrdering ==
    [][UploadStoresPart /\ PartsStay /\ CompletePublishesAscending]_vars

\* A completion whose caller listed part 2 before part 1 published part 1's bytes
\* (PayloadY) followed by part 2's (PayloadX).
MultipartOrderingWitness ==
    /\ last.op = "CompleteMultipartUpload"
    /\ last.err = ""
    /\ Len(last.parts) = 2
    /\ last.parts[1].part_number = 2
    /\ last.parts[2].part_number = 1
    /\ GetObject(fs, last.bucket, last.key).val.body = PayloadY \o PayloadX

\* The session uploadID exists: its directory holds upload.json.
SessionExists(f, bucket, uploadID) ==
    IsFile(f, JoinName(MultipartPath(bucket, <<>>, uploadID), UploadJson))

\* The entity tag UploadPart recorded for part n of the session, if it recorded one.
HasStoredTag(f, bucket, uploadID, n) ==
    LET q == JoinName(MultipartPath(bucket, <<>>, uploadID), PartMetaName(n)) IN
    IsFile(f, q) /\ DecodeOK(f[q])
StoredTag(f, bucket, uploadID, n) ==
    DecodeJSON(f[JoinName(MultipartPath(bucket, <<>>, uploadID), PartMetaName(n))]).etag

\* The part list names a part the session does not hold, or gives a tag that is
\* not the stored one.
BadPartList(f, bucket, uploadID, parts) ==
    \E i \in 1 .. Len(parts) :
        \/ ~HasStoredTag(f, bucket, uploadID, parts[i].part_number)
        \/ StoredTag(f, bucket, uploadID, parts[i].part_number) # parts[i].etag

\* C3 (part validation): a CompleteMultipartUpload of an existing session whose
\* part list references a part number never uploaded to the session, or supplies
\* an entity tag different from the stored tag of that part, fails with
\* InvalidPart and publishes no object: GetObject and HeadObject of the key
\* return what they returned before the call.
InvalidPartRejected ==
    [][(/\ Called("CompleteMultipartUpload")
        /\ SessionExists(fs, last'.bucket, last'.uploadID)
        /\ BadPartList(fs, last'.bucket, last'.uploadID, last'.parts))
           => /\ CompleteErrorCode(last'.err) = "InvalidPart"
              /\ Reads(fs', last'.bucket, last'.key) = Reads(fs, last'.bucket, last'.key)]_vars

\* C6 (bytes/metadata consistency): in every state with no call in flight, states
\* reached after failed calls included, for every (bucket, key) a metadata record
\* exists if and only if object bytes exist.
BytesMetadataConsistent ==
    \A bucket \in Buckets, key \in Keys :
        IsFile(fs, ObjectPath(bucket, key)) <=> IsFile(fs, MetadataPath(bucket, key))

\* The files and directories of a session.
SessionFiles(f, bucket, uploadID) ==
    {p \in DOMAIN f : IsUnder(MultipartPath(bucket, <<>>, uploadID), p)}

\* C9 (failed completion): a CompleteMultipartUpload that fails leaves the session
\* as it was: every file of the session is unchanged and ListParts returns what
\* it returned before the call; a retried completion, with whatever part list,
\* ends as it would have ended before the failed call, and an abort succeeds.
FailedCompleteKeepsSession ==
    [][(Called("CompleteMultipartUpload") /\ last'.err # "")
           => /\ SessionFiles(fs', last'.bucket, last'.uploadID)
                     = SessionFiles(fs, last'.bucket, last'.uploadID)
              /\ \A p \in SessionFiles(fs, last'.bucket, last'.uploadID) : fs'[p] = fs[p]
              /\ Outcome(ListParts(fs', last'.bucket, last'.key, last'.uploadID))
                     = Outcome(ListParts(fs, last'.bucket, last'.key, last'.uploadID))
              /\ \A parts \in PartLists :
                     Outcome(CompleteMultipartUpload(fs', now', last'.bucket, last'.key,
                                                     last'.uploadID, parts))
                         = Outcome(CompleteMultipartUpload(fs, now', last'.bucket, last'.key,
                                                           last'.uploadID, parts))
              /\ AbortMultipartUpload(fs', last'.bucket, last'.key, last'.uploadID).err = ""]_vars

\* A completion failed on a part the session lacks; the session still lists the
\* part it holds, and a completion that names that part alone would succeed.
FailedCompleteWitness ==
    /\ last.op = "CompleteMultipartUpload"
    /\ last.err = "failed to open part"
    /\ Len(last.parts) = 2
    /\ LET parts == ListParts(fs, last.bucket, last.key, last.uploadID) IN
       /\ parts.err = ""
       /\ Len(parts.val) = 1
       /\ CompleteMultipartUpload(fs, now, last.bucket, last.key, last.uploadID,
                                  <<[part_number |-> parts.val[1].part_number,
                                     etag |-> Md5Hex(PayloadX)]>>).err = ""

\* Every later call on the session finds no upload.
SessionGone(f, bucket, uploadID) ==
    /\ SessionFiles(f, bucket, uploadID) = {}
    /\ \A key \in Keys :
        /\ ListParts(f, bucket, key, uploadID).err = "upload not found"
        /\ \A n \in PartNumbers, data \in Streams :
               LET r == UploadPart(f, bucket, key, uploadID, n, data) IN
               r.err = "upload not found" /\ r.fs = f
        /\ \A parts \in PartLists, t \in ClockReadings(now) :
               LET r == CompleteMultipartUpload(f, t, bucket, key, uploadID, parts) IN
               r.err = "upload not found" /\ r.fs = f

\* The step is a CreateMultipartUpload that returned uploadID.
Issues(uploadID) ==
    /\ Called("CreateMultipartUpload")
    /\ last'.err = ""
    /\ last'.val.upload_id = uploadID

\* The end of a session, and its staying ended.
CompleteEndsSession ==
    (Called("CompleteMultipartUpload") /\ last'.err = "")
        => SessionGone(fs', last'.bucket, last'.uploadID)

GoneStaysGone ==
    \A bucket \in Buckets, uploadID \in issued :
        (SessionFiles(fs, bucket, uploadID) = {} /\ ~Issues(uploadID))
            => SessionGone(fs', bucket, uploadID)

\* C10 (completion is terminal): after a successful CompleteMultipartUpload the
\* session no longer exists: UploadPart, ListParts and CompleteMultipartUpload
\* with its upload id fail with "upload not found" and change nothing, and this
\* stays so for as long as CreateMultipartUpload does not return the same upload
\* id again.
CompleteIsTerminal == [][CompleteEndsSession /\ GoneStaysGone]_vars

\* A session was completed with a part, and a later call made with its upload id
\* found no upload.
CompleteIsTerminalWitness ==
    /\ last.op \in {"ListParts", "UploadPart", "CompleteMultipartUpload"}
    /\ last.uploadID \in issued
    /\ last.err = "upload not found"
    /\ \E key \in Keys :
          LET get == GetObject(fs, last.bucket, key) IN
          get.err = "" /\ get.val.meta.etag[1] = "%s-%d" /\ get.val.meta.size > 0

---------------------------------------------------------------------------
(* Properties of range reads *)

\* C5 (range correctness): for an object with stored bytes P of length size and
\* any 0 <= start <= end < size, GetObjectRange(start, end) succeeds and returns
\* exactly the bytes P[start .. end] (positions counted from 0), that is
\* end - start + 1 bytes, and reports the bounds start and end.
RangeCorrect ==
    (last.op = "GetObjectRange" /\ GetObject(fs, last.bucket, last.key).err = "")
        => LET P == GetObject(fs, last.bucket, last.key).val.body IN
           (0 <= last.start /\ last.start <= last.end /\ last.end < Len(P))
               => /\ last.err = ""
                  /\ Len(last.val.body) = last.end - last.start + 1
                  /\ \A i \in 0 .. (last.end - last.start) :
                         last.val.body[i + 1] = P[last.start + i + 1]
                  /\ last.val.start = last.start
                  /\ last.val.end = last.end

\* The two last bytes of a three-byte object were read.
RangeCorrectWitness ==
    /\ last.op = "GetObjectRange"
    /\ last.start = 1
    /\ last.end = 2
    /\ last.err = ""
    /\ last.val.body = <<2, 3>>
    /\ GetObject(fs, last.bucket, last.key).val.body = PayloadX

---------------------------------------------------------------------------
(* Paging through a listing of a store that does not change *)

ListKeys == {<<"a", "/", "b">>, <<"a", "/", "c">>, <<"a", "b">>, <<"b">>}
ListPrefixes == {<<>>, <<"a">>, <<"a", "/">>, <<"b">>}
PageSizes == 0 .. MaxPageSize
ListAPIs == {"ListObjects", "ListObjectsV2"}

\* The directory tree after PutObject of every key of K, one after another.
RECURSIVE StoreOf(_)
StoreOf(K) ==
    IF K = {} THEN EmptyFS
    ELSE LET key == CHOOSE x \in K : TRUE IN
         PutObject(StoreOf(K \ {key}), 0, CHOOSE b \in Buckets : TRUE, key,
                   Full(PayloadY), AttrsPng.md, AttrsPng.ct).fs

\* The engine opened on a directory that holds the objects of earlier puts.
InitList ==
    /\ fs \in {StoreOf(K) : K \in SUBSET ListKeys}
    /\ now = 0
    /\ nops = 0
    /\ issued = {}
    /\ last = [op |-> "NewFileSystemStorage", err |-> ""]
    /\ procs = [p \in Writers \cup {Reader} |-> IdleProc]
    /\ pager = Idle

\* One list call of the api the client uses, and the cursor its response carries
\* (handleListObjects sends NextMarker / NextContinuationToken when truncated).
ListCall(api, f, bucket, prefix, cursor, maxKeys) ==
    IF api = "ListObjects" THEN ListObjects(f, bucket, prefix, cursor, maxKeys)
    ELSE ListObjectsV2(f, bucket, prefix, cursor, maxKeys)

ResponseCursor(api, val) ==
    IF ~val.IsTruncated THEN <<>>
    ELSE IF api = "ListObjects" THEN val.NextMarker
    ELSE val.NextContinuationToken

KeysOf(objects) == [i \in 1 .. Len(objects) |-> objects[i].key]

\* The client asks for the first page.
FirstPage ==
    /\ pager = Idle
    /\ \E api \in ListAPIs, bucket \in Buckets, prefix \in ListPrefixes,
          maxKeys \in PageSizes :
         \E r \in {ListCall(api, fs, bucket, prefix, <<>>, maxKeys)} :
         /\ pager' = [state |-> "paging", api |-> api, bucket |-> bucket,
                      prefix |-> prefix, maxKeys |-> maxKeys,
                      cursor |-> ResponseCursor(api, r.val),
                      truncated |-> r.val.IsTruncated,
                      keys |-> KeysOf(r.val.Objects)]
         /\ last' = [op |-> api, bucket |-> bucket, prefix |-> prefix, cursor |-> <<>>,
                     maxKeys |-> maxKeys, err |-> r.err, val |-> r.val]
    /\ UNCHANGED <<fs, now, nops, issued, procs>>

\* The client asks for the page after the cursor of the last response.
NextPage ==
    /\ pager.state = "paging"
    /\ pager.truncated
    /\ \E r \in {ListCall(pager.api, fs, pager.bucket, pager.prefix, pager.cursor,
                          pager.maxKeys)} :
         /\ pager' = [pager EXCEPT !.cursor = ResponseCursor(pager.api, r.val),
                                   !.truncated = r.val.IsTruncated,
                                   !.keys = pager.keys \o KeysOf(r.val.Objects)]
         /\ last' = [op |-> pager.api, bucket |-> pager.bucket, prefix |-> pager.prefix,
                     cursor |-> pager.cursor, maxKeys |-> pager.maxKeys,
                     err |-> r.err, val |-> r.val]
    /\ UNCHANGED <<fs, now, nops, issued, procs>>

NextList ==
    \/ FirstPage
    \/ NextPage

SpecList == InitList /\ [][NextList]_vars

\* The keys of the stored objects that start with the prefix.
Matching(f, bucket, prefix) ==
    {key \in ListKeys : HeadObject(f, bucket, key).err = "" /\ HasPrefix(key, prefix)}

\* C4 (pagination completeness): for a store that does not change and any
\* maxKeys >= 1, following the returned cursor from page to page until
\* IsTruncated is false yields every key matching the prefix exactly once, in
\* ascending byte-lexicographic order: the keys collected so far are stored keys
\* with the prefix in strictly ascending order, and when the last page has come
\* none is missing.
PaginationComplete ==
    (pager.state = "paging" /\ pager.maxKeys >= 1)
        => /\ \A i \in 1 .. Len(pager.keys) :
                  pager.keys[i] \in Matching(fs, pager.bucket, pager.prefix)
           /\ \A i \in 1 .. Len(pager.keys) - 1 :
                  StrLess(pager.keys[i], pager.keys[i + 1])
           /\ ~pager.truncated
                  => {pager.keys[i] : i \in 1 .. Len(pager.keys)}
                         = Matching(fs, pager.bucket, pager.prefix)

\* Three keys with the prefix "a" were collected one per page, "a/b" before
\* "a/c" before "ab".
PaginationCompleteWitness ==
    /\ pager.state = "paging"
    /\ pager.maxKeys = 1
    /\ pager.prefix = <<"a">>
    /\ ~pager.truncated
    /\ pager.keys = << <<"a", "/", "b">>, <<"a", "/", "c">>, <<"a", "b">> >>

---------------------------------------------------------------------------
(* PutObject and GetObject called concurrently on one key.  Nothing in the
   engine orders two calls: each runs its file operations in program order, and
   the operations of different calls interleave freely. *)

ConcBucket == <<"bkt">>
ConcKey == KeyA
ConcObjPath == ObjectPath(ConcBucket, ConcKey)
ConcMetaPath == MetadataPath(ConcBucket, ConcKey)

\* What each writer puts.
RequestOf(w) ==
    IF w = "w1" THEN [data |-> Full(PayloadX), attrs |-> AttrsText]
    ELSE [data |-> Full(PayloadY), attrs |-> AttrsPng]

Active(p) == procs[p].pc \notin {"idle", "done"}

\* What a caller is given by GetObject and by reading the stream to its end.
View(err, meta, body) ==
    IF err # "" THEN [err |-> err]
    ELSE [err |-> "", body |-> body, size |-> meta.size,
          content_type |-> meta.content_type, metadata |-> meta.metadata]

\* The same for a GetObject that runs with no other call in flight.
QuietView(f) ==
    LET get == GetObject(f, ConcBucket, ConcKey) IN
    View(get.err, IF get.err = "" THEN get.val.meta ELSE NoVal,
         IF get.err = "" THEN get.val.body ELSE <<>>)

\* The object a writer's call is to store.
NewView(w) ==
    [err |-> "", body |-> RequestOf(w).data.bytes, size |-> Len(RequestOf(w).data.bytes),
     content_type |-> RequestOf(w).attrs.ct, metadata |-> RequestOf(w).attrs.md]

\* file.Write(chunk) at the offset of the caller's own file descriptor: the bytes
\* land at the offset, past whatever the file holds now (a gap reads as zeros).
WriteAt(bytes, off, chunk) ==
    [i \in 1 .. (IF Len(bytes) > off + Len(chunk) THEN Len(bytes) ELSE off + Len(chunk)) |->
        IF i > off /\ i <= off + Len(chunk) THEN chunk[i - off]
        ELSE IF i <= Len(bytes) THEN bytes[i]
        ELSE 0]

Finish(p, err) == [procs[p] EXCEPT !.pc = "done", !.err = err]

\* PutObject is called.
PutBegin(w) ==
    /\ procs[w].pc = "idle"
    /\ procs' = [p \in DOMAIN procs |->
                   IF p = w
                   THEN [procs[p] EXCEPT !.pc = "mkdirObj", !.prev = QuietView(fs),
                                         !.overlap = \E v \in Writers \ {w} : Active(v)]
                   ELSE IF p \in Writers /\ Active(p)
                   THEN [procs[p] EXCEPT !.overlap = TRUE]
                   ELSE IF p = Reader /\ Active(p)
                   THEN [procs[p] EXCEPT !.allowed = @ \cup {QuietView(fs), NewView(w)}]
                   ELSE procs[p]]
    /\ UNCHANGED <<fs, now, nops, issued, last, pager>>

\* os.MkdirAll(filepath.Dir(objPath))
PutMkdirObj(w) ==
    /\ procs[w].pc = "mkdirObj"
    /\ IF MkdirAllOK(fs, Dir(ConcObjPath))
       THEN /\ fs' = MkdirAll(fs, Dir(ConcObjPath))
            /\ procs' = [procs EXCEPT ![w].pc = "mkdirMeta"]
       ELSE /\ fs' = fs
            /\ procs' = [procs EXCEPT ![w] = Finish(w, "failed to create object directory")]
    /\ UNCHANGED <<now, nops, issued, last, pager>>

\* os.MkdirAll(filepath.Dir(metaPath))
PutMkdirMeta(w) ==
    /\ procs[w].pc = "mkdirMeta"
    /\ IF MkdirAllOK(fs, Dir(ConcMetaPath))
       THEN /\ fs' = MkdirAll(fs, Dir(ConcMetaPath))
            /\ procs' = [procs EXCEPT ![w].pc = "create"]
       ELSE /\ fs' = fs
            /\ procs' = [procs EXCEPT ![w] = Finish(w, "failed to create metadata directory")]
    /\ UNCHANGED <<now, nops, issued, last, pager>>

\* os.Create(objPath): the file is created or truncated; the descriptor starts at 0.
PutCreate(w) ==
    /\ procs[w].pc = "create"
    /\ IF CreateOK(fs, ConcObjPath)
       THEN /\ fs' = Create(fs, ConcObjPath)
            /\ procs' = [procs EXCEPT ![w].pc = "copy", ![w].off = 0]
       ELSE /\ fs' = fs
            /\ procs' = [procs EXCEPT ![w] = Finish(w, "failed to create object file")]
    /\ UNCHANGED <<now, nops, issued, last, pager>>

\* io.Copy(file, data): one write of the next chunk of the stream.
PutCopy(w) ==
    /\ procs[w].pc = "copy"
    /\ LET bytes == RequestOf(w).data.bytes
           off == procs[w].off
           chunk == SubSeq(bytes, off + 1, Min(Len(bytes), off + ChunkSize))
       IN
       /\ fs' = WriteFile(fs, ConcObjPath, RawFile(WriteAt(fs[ConcObjPath].data, off, chunk)))
       /\ procs' = [procs EXCEPT ![w].off = off + Len(chunk),
                                 ![w].pc = IF off + Len(chunk) >= Len(bytes)
                                           THEN "createMeta" ELSE "copy"]
    /\ UNCHANGED <<now, nops, issued, last, pager>>

\* os.Create(metaPath): the metadata file is created or truncated.
PutCreateMeta(w) ==
    /\ procs[w].pc = "createMeta"
    /\ IF CreateOK(fs, ConcMetaPath)
       THEN /\ fs' = Create(fs, ConcMetaPath)
            /\ procs' = [procs EXCEPT ![w].pc = "encode"]
       ELSE /\ fs' = fs
            /\ procs' = [procs EXCEPT ![w] = Finish(w, "failed to create metadata file")]
    /\ UNCHANGED <<now, nops, issued, last, pager>>

\* json.NewEncoder(metaFile).Encode(objMeta), and the return.
PutEncode(w) ==
    /\ procs[w].pc = "encode"
    /\ LET size == Len(RequestOf(w).data.bytes)
           objMeta == [key |-> ConcKey, size |-> size, etag |-> PutETag(size, now),
                       content_type |-> RequestOf(w).attrs.ct,
                       metadata |-> RequestOf(w).attrs.md]
       IN
       /\ fs' = WriteFile(fs, ConcMetaPath, EncodeJSON(objMeta))
       /\ procs' = [procs EXCEPT ![w] = [Finish(w, "") EXCEPT !.meta = objMeta]]
    /\ UNCHANGED <<now, nops, issued, last, pager>>

\* GetObject is called.  (allowed: the objects that were whole at some moment of
\* the call, were every PutObject to take effect at once.)
GetBegin ==
    /\ procs[Reader].pc = "idle"
    /\ procs' = [procs EXCEPT
                   ![Reader].pc = "stat",
                   ![Reader].allowed =
                       IF \E w \in Writers : Active(w)
                       THEN UNION {{procs[w].prev, NewView(w)} : w \in {v \in Writers : Active(v)}}
                       ELSE {QuietView(fs)}]
    /\ UNCHANGED <<fs, now, nops, issued, last, pager>>

\* os.Stat(objPath)
GetStat ==
    /\ procs[Reader].pc = "stat"
    /\ procs' = [procs EXCEPT ![Reader] =
                   IF Lookup(fs, ConcObjPath) = "ENOENT"
                   THEN Finish(Reader, "object not found")
                   ELSE [procs[Reader] EXCEPT !.pc = "openMeta"]]
    /\ UNCHANGED <<fs, now, nops, issued, last, pager>>

\* os.Open(metaPath)
GetOpenMeta ==
    /\ procs[Reader].pc = "openMeta"
    /\ procs' = [procs EXCEPT ![Reader] =
                   IF Lookup(fs, ConcMetaPath) # ""
                   THEN Finish(Reader, "failed to read metadata")
                   ELSE [procs[Reader] EXCEPT !.pc = "decode"]]
    /\ UNCHANGED <<fs, now, nops, issued, last, pager>>

\* json.NewDecoder(metaFile).Decode(&meta)
GetDecode ==
    /\ procs[Reader].pc = "decode"
    /\ procs' = [procs EXCEPT ![Reader] =
                   IF ~DecodeOK(fs[ConcMetaPath])
                   THEN Finish(Reader, "failed to decode metadata")
                   ELSE [procs[Reader] EXCEPT !.pc = "openObj",
                                              !.meta = DecodeJSON(fs[ConcMetaPath])]]
    /\ UNCHANGED <<fs, now, nops, issued, last, pager>>

\* os.Open(objPath), and the return of the open file with the metadata.
GetOpenObj ==
    /\ procs[Reader].pc = "openObj"
    /\ procs' = [procs EXCEPT ![Reader] =
                   IF Lookup(fs, ConcObjPath) # ""
                   THEN Finish(Reader, "failed to open object")
                   ELSE [procs[Reader] EXCEPT !.pc = "read"]]
    /\ UNCHANGED <<fs, now, nops, issued, last, pager>>

\* The caller reads the returned stream to its end (handleGetObject copies it
\* into the response).
GetRead ==
    /\ procs[Reader].pc = "read"
    /\ procs' = [procs EXCEPT ![Reader] =
                   [Finish(Reader, "") EXCEPT !.body = fs[ConcObjPath].data]]
    /\ UNCHANGED <<fs, now, nops, issued, last, pager>>

NextConc ==
    \/ \E w \in Writers : PutBegin(w)
    \/ \E w \in Writers : PutMkdirObj(w)
    \/ \E w \in Writers : PutMkdirMeta(w)
    \/ \E w \in Writers : PutCreate(w)
    \/ \E w \in Writers : PutCopy(w)
    \/ \E w \in Writers : PutCreateMeta(w)
    \/ \E w \in Writers : PutEncode(w)
    \/ GetBegin
    \/ GetStat
    \/ GetOpenMeta
    \/ GetDecode
    \/ GetOpenObj
    \/ GetRead

SpecConc == Init /\ [][NextConc]_vars

\* No two PutObject calls have overlapped.
WritersApart == \A w \in Writers : ~procs[w].overlap

\* C7 (atomic visibility): a GetObject concurrent with a PutObject on the same
\* key returns either the complete previous object (bytes and metadata from
\* before the put began) or the complete new object (bytes and metadata of the
\* put), never bytes of one version with metadata of the other and never a
\* truncated byte stream.  (Where no object was stored before the put, the
\* previous outcome is "object not found".)
AtomicVisibility ==
    (procs[Reader].pc = "done" /\ WritersApart)
        => View(procs[Reader].err, procs[Reader].meta, procs[Reader].body)
               \in procs[Reader].allowed

\* C8 (per-key write exclusion): when two PutObject calls on the same key overlap
\* in time and both have returned, the stored object equals, in both bytes and
\* metadata, the object of exactly one of the two calls.
WriteExclusion ==
    (/\ \A w \in Writers : procs[w].pc = "done" /\ procs[w].err = ""
     /\ \E w \in Writers : procs[w].overlap
     /\ ~Active(Reader))
        => QuietView(fs) \in {NewView(w) : w \in Writers}

---------------------------------------------------------------------------
(* Properties of aborted, unknown and re-used sessions *)

\* What every reader of the bucket's objects is given in the directory tree f.
AllReads(f, bucket) == [key \in Keys |-> Reads(f, bucket, key)]

AbortEndsSession ==
    Called("AbortMultipartUpload")
        => /\ last'.err = ""
           /\ SessionGone(fs', last'.bucket, last'.uploadID)
           /\ AllReads(fs', last'.bucket) = AllReads(fs, last'.bucket)

\* C11 (abort cleanup): after AbortMultipartUpload returns, nothing of the session
\* is left in the store, every later CompleteMultipartUpload, UploadPart or
\* ListParts with its upload id fails with "upload not found" and changes
\* nothing, and the abort itself leaves every object as it was: no object is
\* produced from the session.  (As for C10, this stays so for as long as
\* CreateMultipartUpload does not return the same upload id again.)
AbortCleansUp == [][AbortEndsSession /\ GoneStaysGone]_vars

\* A session was created and aborted, and an UploadPart made with its upload id
\* afterwards found no upload; the store holds no object and no session.
AbortCleansUpWitness ==
    /\ last.op = "UploadPart"
    /\ last.uploadID \in issued
    /\ last.err = "upload not found"
    /\ nops = MaxMultipartOps
    /\ \A p \in DOMAIN fs : IsDir(fs, p)

\* C12 (idempotent abort): AbortMultipartUpload of an upload id that is unknown,
\* or whose session was already aborted or completed, returns success (the
\* adapter answers 204) and changes nothing; and after any abort, aborting the
\* same upload id again returns success and leaves the store as the first abort
\* left it.
AbortIdempotent ==
    [][Called("AbortMultipartUpload")
           => /\ AbortResponse(last'.err) = "204 No Content"
              /\ ~Exists(fs, MultipartPath(last'.bucket, last'.key, last'.uploadID))
                     => fs' = fs
              /\ LET again == AbortMultipartUpload(fs', last'.bucket, last'.key,
                                                   last'.uploadID)
                 IN  /\ AbortResponse(again.err) = "204 No Content"
                     /\ again.fs = fs']_vars

\* An abort of an unknown upload id succeeded next to a live session that holds
\* a part.
AbortIdempotentWitness ==
    /\ last.op = "AbortMultipartUpload"
    /\ last.uploadID = UnknownUploadID
    /\ last.err = ""
    /\ \E uploadID \in issued :
          /\ SessionExists(fs, last.bucket, uploadID)
          /\ IsFile(fs, PartPath(last.bucket, uploadID, 1))

---------------------------------------------------------------------------
(* Properties of absent and deleted objects *)

\* Nothing is stored at (bucket, key): neither object bytes nor a metadata record.
Absent(f, bucket, key) ==
    /\ ~IsFile(f, ObjectPath(bucket, key))
    /\ ~IsFile(f, MetadataPath(bucket, key))

\* C13 (idempotent delete): in every reachable state, DeleteObject of a
\* (bucket, key) at which nothing is stored returns success and changes nothing:
\* GetObject and HeadObject return for every key what they returned before; and
\* the same holds of the call repeated.
DeleteAbsentSucceeds ==
    [][(Called("DeleteObject") /\ Absent(fs, last'.bucket, last'.key))
           => /\ last'.err = ""
              /\ AllReads(fs', last'.bucket) = AllReads(fs, last'.bucket)
              /\ LET again == DeleteObject(fs', last'.bucket, last'.key) IN
                 /\ again.err = ""
                 /\ AllReads(again.fs, last'.bucket) = AllReads(fs', last'.bucket)]_vars

\* C14 (absent keys): in every reachable state, for every (bucket, key) at which
\* nothing is stored, GetObject, HeadObject and GetObjectRange (with whatever
\* bounds) fail with the outcome the adapter reports as NoSuchKey, never with an
\* internal error and never with data.
AbsentIsNotFound ==
    \A bucket \in Buckets, key \in Keys :
        Absent(fs, bucket, key)
            => /\ ReadErrorCode(GetObject(fs, bucket, key).err) = "NoSuchKey"
               /\ ReadErrorCode(HeadObject(fs, bucket, key).err) = "NoSuchKey"
               /\ \A start \in RangeBounds, end \in RangeBounds, dirSize \in DirSizes :
                      ReadErrorCode(GetObjectRange(fs, bucket, key, start, end, dirSize).err)
                          = "NoSuchKey"

\* The keys the list calls on the bucket return, whatever the prefix: the keys of
\* the unpaged listings (maxKeys = 0 asks for the default page, which holds them
\* all; every page of a paged listing is cut out of the same sorted listing).
ListedKeys(f, bucket) ==
    UNION {{r.val.Objects[i].key : i \in 1 .. Len(r.val.Objects)} :
              r \in {ListCall(api, f, bucket, prefix, <<>>, 0) :
                        api \in ListAPIs, prefix \in ListPrefixes}}

\* GetObject and HeadObject of the key fail, and no list call returns it.
Deleted(f, bucket, key, listed) ==
    /\ GetObject(f, bucket, key).err # ""
    /\ HeadObject(f, bucket, key).err # ""
    /\ key \notin listed

DeleteRemoves ==
    (Called("DeleteObject") /\ last'.err = "")
        => Deleted(fs', last'.bucket, last'.key, ListedKeys(fs', last'.bucket))

\* (A step that leaves the directory tree as it is changes none of this.)
DeletedStays ==
    \/ fs' = fs
    \/ \A bucket \in Buckets :
        LET before == ListedKeys(fs, bucket)
            after == ListedKeys(fs', bucket)
        IN  \A key \in Keys :
                (Deleted(fs, bucket, key, before) /\ ~WritesObject(bucket, key))
                    => Deleted(fs', bucket, key, after)

\* C15 (delete removes): after a successful DeleteObject of (bucket, key), and
\* until the next write to that key, HeadObject and GetObject of the key fail and
\* no listing of the bucket returns the key.  Stated on steps: a successful
\* delete leaves the key unreadable and unlisted, and no call other than a
\* write to the key makes an unreadable, unlisted key readable or listed.
DeleteRemovesObject == [][DeleteRemoves /\ DeletedStays]_vars

\* The object a/b was deleted (the directories made for it remain, empty) while
\* the object b stays stored and listed.
DeleteRemovesObjectWitness ==
    /\ last.op = "DeleteObject"
    /\ last.err = ""
    /\ last.key = KeyAB
    /\ IsDir(fs, ObjectPath(last.bucket, KeyA))
    /\ Children(fs, ObjectPath(last.bucket, KeyA)) = {}
    /\ IsDir(fs, Dir(MetadataPath(last.bucket, KeyAB)))
    /\ ListedKeys(fs, last.bucket) = {KeyB}

\* The upload id names a session that CreateMultipartUpload opened and that has
\* been neither completed nor aborted.
LiveSession(f, bucket, uploadID) ==
    uploadID \in issued /\ SessionExists(f, bucket, uploadID)

\* C16 (unknown session): UploadPart and ListParts with an upload id for which no
\* session exists (never initiated, or completed, or aborted) fail with "upload
\* not found", and the failed UploadPart stores nothing.
UnknownSessionRejected ==
    [][/\ (Called("UploadPart") /\ ~LiveSession(fs, last'.bucket, last'.uploadID))
            => last'.err = "upload not found" /\ fs' = fs
       /\ (last'.op = "ListParts" /\ ~LiveSession(fs, last'.bucket, last'.uploadID))
            => last'.err = "upload not found"]_vars

---------------------------------------------------------------------------
(* Properties of the parts and the binding of a session *)

\* What ListParts returns for the session (the key takes no part in it).
SessionParts(f, bucket, uploadID) == Outcome(ListParts(f, bucket, <<>>, uploadID))

StrictlyAscending(parts) ==
    \A i \in 1 .. Len(parts) - 1 : parts[i].part_number < parts[i + 1].part_number

AsSet(seq) == {seq[i] : i \in 1 .. Len(seq)}

\* A successful UploadPart of part n makes ListParts return one record of part n,
\* with the tag and the size of the bytes just uploaded, next to the records of
\* the other parts as they were.
UploadListsPart ==
    (Called("UploadPart") /\ last'.err = "")
        => LET before == SessionParts(fs, last'.bucket, last'.uploadID)
               after == SessionParts(fs', last'.bucket, last'.uploadID)
           IN  /\ after.err = ""
               /\ StrictlyAscending(after.val)
               /\ Cardinality(AsSet(after.val)) = Len(after.val)
               /\ AsSet(after.val)
                      = {r \in AsSet(before.val) : r.part_number # last'.partNumber}
                            \cup {[part_number |-> last'.partNumber,
                                   etag |-> Md5Hex(last'.data.bytes),
                                   size |-> Len(last'.data.bytes)]}

\* No other step changes what ListParts returns for a session that lasts.
ListingStays ==
    \/ fs' = fs
    \/ \A bucket \in Buckets, uploadID \in issued :
          (/\ ~(Called("UploadPart") /\ last'.uploadID = uploadID /\ last'.err = "")
           /\ SessionExists(fs, bucket, uploadID)
           /\ SessionExists(fs', bucket, uploadID))
              => SessionParts(fs', bucket, uploadID) = SessionParts(fs, bucket, uploadID)

\* C17 (unique part numbers): after any sequence of successful UploadPart calls,
\* ListParts returns exactly one Part per distinct part number uploaded, in
\* strictly ascending part-number order, each with the tag and the size of the
\* most recent upload of that number.  Stated on steps: a successful upload of
\* part n replaces the record of part n and no other, and nothing else changes
\* the records of a session.
PartNumbersUnique == [][UploadListsPart /\ ListingStays]_vars

\* ListParts returned two parts, part 1 with the tag of PayloadY and part 2 with
\* the tag of PayloadX, after three part uploads to the one session.
PartNumbersUniqueWitness ==
    /\ last.op = "ListParts"
    /\ last.err = ""
    /\ nops = MaxMultipartOps
    /\ Cardinality(issued) = 1
    /\ Len(last.val) = 2
    /\ last.val[1] = [part_number |-> 1, etag |-> Md5Hex(PayloadY), size |-> Len(PayloadY)]
    /\ last.val[2] = [part_number |-> 2, etag |-> Md5Hex(PayloadX), size |-> Len(PayloadX)]

\* The record CreateMultipartUpload wrote for the session.
UploadRecord(f, bucket, uploadID) ==
    DecodeJSON(f[JoinName(MultipartPath(bucket, <<>>, uploadID), UploadJson)])

\* C18 (session binding): a successful CompleteMultipartUpload of upload id U
\* creates or replaces the object at exactly the bucket and key given to
\* CreateMultipartUpload, with the content type and custom metadata given there,
\* and at no other key, whatever key the completion call passes alongside U.
SessionBoundToKey ==
    [][(/\ Called("CompleteMultipartUpload")
        /\ last'.err = ""
        /\ LiveSession(fs, last'.bucket, last'.uploadID))
           => LET upload == UploadRecord(fs, last'.bucket, last'.uploadID)
                  get == GetObject(fs', upload.bucket, upload.key)
              IN  /\ get.err = ""
                  /\ get.val.meta.key = upload.key
                  /\ get.val.meta.content_type = upload.content_type
                  /\ get.val.meta.metadata = upload.metadata
                  /\ \A key \in Keys \ {upload.key} :
                         Reads(fs', upload.bucket, key) = Reads(fs, upload.bucket, key)]_vars

\* C19 (unique upload ids): any two CreateMultipartUpload calls, calls within the
\* same clock tick included, return different upload ids: a successful call
\* returns an id that no earlier call returned.
UploadIDsUnique ==
    [][(Called("CreateMultipartUpload") /\ last'.err = "")
           => last'.val.upload_id \notin issued]_vars

---------------------------------------------------------------------------
(* CompleteMultipartUpload called concurrently with another call on the same
   session.  Nothing in the engine orders the two calls: each runs its file
   operations in program order, and the operations of the two interleave. *)

SessionBucket == <<"bkt">>
SessionKey == KeyA
SessionUploadID == NewUploadID(0, 0)
SessionPath == MultipartPath(SessionBucket, SessionKey, SessionUploadID)
SessionObjPath == ObjectPath(SessionBucket, SessionKey)
SessionMetaPath == MetadataPath(SessionBucket, SessionKey)

\* The directory tree after CreateMultipartUpload and an UploadPart of part 1
\* (PayloadX) and of part 2 (PayloadY).
SessionStore ==
    LET created == CreateMultipartUpload(EmptyFS, 0, 0, SessionBucket, SessionKey,
                                         AttrsText.ct, AttrsText.md)
        first == UploadPart(created.fs, SessionBucket, SessionKey, SessionUploadID,
                            1, Full(PayloadX))
        second == UploadPart(first.fs, SessionBucket, SessionKey, SessionUploadID,
                             2, Full(PayloadY))
    IN  second.fs

\* The part list of the completion requests (part 2 listed first), and the part
\* a concurrent UploadPart replaces.
RequestedParts == <<[part_number |-> 2, etag |-> Md5Hex(PayloadY)],
                    [part_number |-> 1, etag |-> Md5Hex(PayloadX)]>>
ReplacedPart == 1
ReplacementData == Full(PayloadY)

\* The two callers: the first completes the upload; the second completes it too,
\* aborts it, or uploads part 1 again.
Contenders == {"c1", "c2"}
RivalOps == {"complete", "abort", "upload"}
StartCall(op) == [pc |-> "start", op |-> op, err |-> "", off |-> 0, idx |-> 1,
                  upload |-> NoVal, part |-> ReplacedPart, data |-> ReplacementData]

\* The engine opened on a directory that holds the session, and the two calls made.
InitSession ==
    /\ fs = SessionStore
    /\ now = 0
    /\ nops = 0
    /\ issued = {SessionUploadID}
    /\ last = [op |-> "NewFileSystemStorage", err |-> ""]
    /\ \E op \in RivalOps :
          procs = [p \in Contenders |-> StartCall(IF p = "c1" THEN "complete" ELSE op)]
    /\ pager = Idle

At(p, op, pc) == procs[p].op = op /\ procs[p].pc = pc
\* partPath and partMetaPath of an UploadPart call
PartPathOf(p) == JoinName(SessionPath, PartName(procs[p].part))
PartMetaPathOf(p) == JoinName(SessionPath, PartMetaName(procs[p].part))
Return(p, err) == [procs[p] EXCEPT !.pc = "done", !.err = err]
SessionFrame == UNCHANGED <<now, nops, issued, last, pager>>

\* CompleteMultipartUpload: os.Open(upload.json) and Decode.
CompleteOpenUpload(p) ==
    /\ At(p, "complete", "start")
    /\ LET metaPath == JoinName(SessionPath, UploadJson) IN
       procs' = [procs EXCEPT ![p] =
                   IF Lookup(fs, metaPath) # ""
                   THEN Return(p, "upload not found")
                   ELSE [procs[p] EXCEPT !.pc = "createObj",
                                         !.upload = IF DecodeOK(fs[metaPath])
                                                    THEN DecodeJSON(fs[metaPath])
                                                    ELSE ZeroUpload]]
    /\ UNCHANGED fs
    /\ SessionFrame

\* os.MkdirAll(filepath.Dir(objPath)) and os.Create(objPath): the final file is
\* created or truncated; the descriptor starts at 0.
CompleteCreateObj(p) ==
    /\ At(p, "complete", "createObj")
    /\ IF ~MkdirAllOK(fs, Dir(SessionObjPath))
       THEN /\ fs' = fs
            /\ procs' = [procs EXCEPT ![p] = Return(p, "failed to create object directory")]
       ELSE IF ~CreateOK(MkdirAll(fs, Dir(SessionObjPath)), SessionObjPath)
       THEN /\ fs' = MkdirAll(fs, Dir(SessionObjPath))
            /\ procs' = [procs EXCEPT ![p] = Return(p, "failed to create final object")]
       ELSE /\ fs' = Create(MkdirAll(fs, Dir(SessionObjPath)), SessionObjPath)
            /\ procs' = [procs EXCEPT ![p].pc = "copyPart", ![p].off = 0, ![p].idx = 1]
    /\ SessionFrame

\* One turn of the concatenation loop: os.Open(partPath) and io.Copy(finalFile,
\* partFile), which writes at the offset of the caller's own descriptor.
CompleteCopyPart(p) ==
    /\ At(p, "complete", "copyPart")
    /\ LET sorted == SortParts(RequestedParts)
           idx == procs[p].idx
           partPath == JoinName(SessionPath, PartName(sorted[idx].part_number))
       IN
       IF Lookup(fs, partPath) # ""
       THEN /\ fs' = fs
            /\ procs' = [procs EXCEPT ![p] = Return(p, "failed to open part")]
       ELSE /\ fs' = WriteFile(fs, SessionObjPath,
                               RawFile(WriteAt(fs[SessionObjPath].data, procs[p].off,
                                               fs[partPath].data)))
            /\ procs' = [procs EXCEPT
                           ![p].off = @ + Len(fs[partPath].data),
                           ![p].idx = idx + 1,
                           ![p].pc = IF idx = Len(sorted) THEN "createMeta" ELSE "copyPart"]
    /\ SessionFrame

\* os.MkdirAll(filepath.Dir(metaObjPath)) and os.Create(metaObjPath)
CompleteCreateMeta(p) ==
    /\ At(p, "complete", "createMeta")
    /\ IF ~MkdirAllOK(fs, Dir(SessionMetaPath))
       THEN /\ fs' = fs
            /\ procs' = [procs EXCEPT ![p] = Return(p, "failed to create metadata directory")]
       ELSE IF ~CreateOK(MkdirAll(fs, Dir(SessionMetaPath)), SessionMetaPath)
       THEN /\ fs' = MkdirAll(fs, Dir(SessionMetaPath))
            /\ procs' = [procs EXCEPT ![p] = Return(p, "failed to create object metadata")]
       ELSE /\ fs' = Create(MkdirAll(fs, Dir(SessionMetaPath)), SessionMetaPath)
            /\ procs' = [procs EXCEPT ![p].pc = "encode"]
    /\ SessionFrame

\* json.NewEncoder(objMetaFile).Encode(objMeta): the size is what this call copied.
CompleteEncode(p) ==
    /\ At(p, "complete", "encode")
    /\ LET objMeta == [key |-> SessionKey,
                       size |-> procs[p].off,
                       etag |-> MultipartETag(now, Len(RequestedParts)),
                       content_type |-> procs[p].upload.content_type,
                       metadata |-> procs[p].upload.metadata]
       IN  fs' = WriteFile(fs, SessionMetaPath, EncodeJSON(objMeta))
    /\ procs' = [procs EXCEPT ![p].pc = "removeAll"]
    /\ SessionFrame

\* os.RemoveAll(mpPath), and the return.
CompleteRemoveAll(p) ==
    /\ At(p, "complete", "removeAll")
    /\ fs' = RemoveAll(fs, SessionPath)
    /\ procs' = [procs EXCEPT ![p] = Return(p, "")]
    /\ SessionFrame

\* AbortMultipartUpload: os.RemoveAll(mpPath)
AbortRemoveAll(p) ==
    /\ At(p, "abort", "start")
    /\ fs' = RemoveAll(fs, SessionPath)
    /\ procs' = [procs EXCEPT ![p] = Return(p, "")]
    /\ SessionFrame

\* UploadPart: os.Stat(upload.json)
PartStat(p) ==
    /\ At(p, "upload", "start")
    /\ procs' = [procs EXCEPT ![p] =
                   IF Lookup(fs, JoinName(SessionPath, UploadJson)) = "ENOENT"
                   THEN Return(p, "upload not found")
                   ELSE [procs[p] EXCEPT !.pc = "createPart"]]
    /\ UNCHANGED fs
    /\ SessionFrame

\* os.Create(partPath): the part file is created or truncated.
PartCreate(p) ==
    /\ At(p, "upload", "createPart")
    /\ IF CreateOK(fs, PartPathOf(p))
       THEN /\ fs' = Create(fs, PartPathOf(p))
            /\ procs' = [procs EXCEPT ![p].pc = "copyData"]
       ELSE /\ fs' = fs
            /\ procs' = [procs EXCEPT ![p] = Return(p, "failed to create part file")]
    /\ SessionFrame

\* io.Copy(multiWriter, data).  (Written through the open descriptor: when the
\* file has been removed meanwhile, the bytes go to a file no path leads to.)
PartCopy(p) ==
    /\ At(p, "upload", "copyData")
    /\ fs' = IF IsFile(fs, PartPathOf(p))
             THEN WriteFile(fs, PartPathOf(p), RawFile(IoCopy(procs[p].data).bytes))
             ELSE fs
    /\ procs' = [procs EXCEPT ![p] =
                   IF IoCopy(procs[p].data).failed
                   THEN Return(p, "failed to write part data")
                   ELSE [procs[p] EXCEPT !.pc = "createPartMeta"]]
    /\ SessionFrame

\* os.Create(partMetaPath)
PartCreateMeta(p) ==
    /\ At(p, "upload", "createPartMeta")
    /\ IF CreateOK(fs, PartMetaPathOf(p))
       THEN /\ fs' = Create(fs, PartMetaPathOf(p))
            /\ procs' = [procs EXCEPT ![p].pc = "encodePart"]
       ELSE /\ fs' = fs
            /\ procs' = [procs EXCEPT ![p] = Return(p, "failed to create part metadata")]
    /\ SessionFrame

\* json.NewEncoder(partMetaFile).Encode(part), and the return.
PartEncode(p) ==
    /\ At(p, "upload", "encodePart")
    /\ LET bytes == IoCopy(procs[p].data).bytes
           part == [part_number |-> procs[p].part, etag |-> Md5Hex(bytes), size |-> Len(bytes)]
       IN  fs' = IF IsFile(fs, PartMetaPathOf(p))
                 THEN WriteFile(fs, PartMetaPathOf(p), EncodeJSON(part))
                 ELSE fs
    /\ procs' = [procs EXCEPT ![p] = Return(p, "")]
    /\ SessionFrame

NextSession ==
    \/ \E p \in Contenders : CompleteOpenUpload(p)
    \/ \E p \in Contenders : CompleteCreateObj(p)
    \/ \E p \in Contenders : CompleteCopyPart(p)
    \/ \E p \in Contenders : CompleteCreateMeta(p)
    \/ \E p \in Contenders : CompleteEncode(p)
    \/ \E p \in Contenders : CompleteRemoveAll(p)
    \/ \E p \in Contenders : AbortRemoveAll(p)
    \/ \E p \in Contenders : PartStat(p)
    \/ \E p \in Contenders : PartCreate(p)
    \/ \E p \in Contenders : PartCopy(p)
    \/ \E p \in Contenders : PartCreateMeta(p)
    \/ \E p \in Contenders : PartEncode(p)

SpecSession == InitSession /\ [][NextSession]_vars

\* The call a contender makes, run alone on the directory tree f.
RunAlone(op, f) ==
    CASE op = "complete" ->
             CompleteMultipartUpload(f, 0, SessionBucket, SessionKey, SessionUploadID,
                                     RequestedParts)
      [] op = "abort" ->
             AbortMultipartUpload(f, SessionBucket, SessionKey, SessionUploadID)
      [] op = "upload" ->
             UploadPart(f, SessionBucket, SessionKey, SessionUploadID, ReplacedPart,
                        ReplacementData)

\* The results of the two calls and the store they leave, were the first
\* contender's call to run to its end before the second's, or the second's
\* before the first's.
SerialOutcomes(rival) ==
    LET a1 == RunAlone("complete", SessionStore)
        a2 == RunAlone(rival, a1.fs)
        b2 == RunAlone(rival, SessionStore)
        b1 == RunAlone("complete", b2.fs)
    IN  {[c1 |-> a1.err, c2 |-> a2.err, fs |-> a2.fs],
         [c1 |-> b1.err, c2 |-> b2.err, fs |-> b1.fs]}

\* C20 (per-session exclusion): when CompleteMultipartUpload runs concurrently
\* with another CompleteMultipartUpload, an AbortMultipartUpload or an UploadPart
\* on the same upload id, the two calls take effect as if executed one after the
\* other: once both have returned, their results and the store are those of one
\* of the two serial orders (so at most one completion succeeds, the loser finds
\* no upload, and the published object is the ordered concatenation of the parts
\* as they stood when the winning completion started).
SessionExclusion ==
    (\A p \in Contenders : procs[p].pc = "done")
        => [c1 |-> procs["c1"].err, c2 |-> procs["c2"].err, fs |-> fs]
               \in SerialOutcomes(procs["c2"].op)

---------------------------------------------------------------------------
(* Two UploadPart calls on one session, running concurrently *)

\* The session as CreateMultipartUpload leaves it
CreatedStore ==
    CreateMultipartUpload(EmptyFS, 0, 0, SessionBucket, SessionKey,
                          AttrsText.ct, AttrsText.md).fs

\* The engine opened on a directory that holds the session (with no part yet, or
\* with parts 1 and 2 of earlier uploads), and two UploadPart calls made, each
\* with a part number and a request body of its own.
InitParts ==
    /\ fs \in {CreatedStore, SessionStore}
    /\ now = 0
    /\ nops = 0
    /\ issued = {SessionUploadID}
    /\ last = [op |-> "NewFileSystemStorage", err |-> ""]
    /\ \E n1 \in PartNumbers : \E n2 \in PartNumbers \ {n1} : \E d1 \in Streams, d2 \in Streams :
          procs = [p \in Contenders |->
                     [StartCall("upload") EXCEPT !.part = IF p = "c1" THEN n1 ELSE n2,
                                                 !.data = IF p = "c1" THEN d1 ELSE d2]]
    /\ pager = Idle

NextParts ==
    \/ \E p \in Contenders : PartStat(p)
    \/ \E p \in Contenders : PartCreate(p)
    \/ \E p \in Contenders : PartCopy(p)
    \/ \E p \in Contenders : PartCreateMeta(p)
    \/ \E p \in Contenders : PartEncode(p)

SpecParts == InitParts /\ [][NextParts]_vars

\* The part record an UploadPart call of contender p returns when its body is
\* read in full
OwnPart(p) ==
    [part_number |-> procs[p].part,
     etag |-> Md5Hex(procs[p].data.bytes),
     size |-> Len(procs[p].data.bytes)]

\* C21: two UploadPart calls on one session with different part numbers that run
\* concurrently both succeed (each call whose request body can be read in full
\* returns success), and once both have returned, the stored bytes of each part
\* and its recorded number, tag and size are those of its own call.
PartsIndependent ==
    (\A p \in Contenders : procs[p].op = "upload" /\ procs[p].pc = "done")
        => \A p \in Contenders :
              IF IoCopy(procs[p].data).failed
              THEN procs[p].err = "failed to write part data"
              ELSE /\ procs[p].err = ""
                   /\ Lookup(fs, PartPathOf(p)) = ""
                   /\ fs[PartPathOf(p)] = RawFile(procs[p].data.bytes)
                   /\ Lookup(fs, PartMetaPathOf(p)) = ""
                   /\ fs[PartMetaPathOf(p)] = EncodeJSON(OwnPart(p))

\* Both calls have returned success, with different bodies, on a session that
\* held other bytes for both parts.
PartsIndependentWitness ==
    /\ \A p \in Contenders : procs[p].op = "upload" /\ procs[p].pc = "done" /\ procs[p].err = ""
    /\ procs["c1"].part # procs["c2"].part
    /\ procs["c1"].data = Full(PayloadY)
    /\ procs["c2"].data = Full(PayloadX)
    /\ procs["c1"].part = 1
    /\ fs[PartPathOf("c1")] = RawFile(PayloadY)
    /\ fs[PartPathOf("c2")] = RawFile(PayloadX)

---------------------------------------------------------------------------
(* Properties of entity tags and of failed writes *)

\* C22: the entity tag of an object written by PutObject is a function of its
\* bytes alone: puts of identical content (to any key, at any time) yield the same
\* tag, and puts of different content yield different tags.  Stated on two
\* successive successful puts.
PutTagOfContent ==
    [][(/\ last.op = "PutObject"
        /\ last.err = ""
        /\ Called("PutObject")
        /\ last'.err = "")
          => ((last'.data.bytes = last.data.bytes) <=> (last'.val.etag = last.val.etag))]_vars

\* C23: a PutObject whose input stream fails partway leaves no visible partial
\* object: after the failed call, GetObject and HeadObject of (bucket, key) return
\* exactly what they returned before it (the complete previous object with its
\* metadata, or "not found").
FailedPutLeavesNothing ==
    [][(Called("PutObject") /\ last'.data.fail >= 0 /\ last'.err # "")
          => Reads(fs', last'.bucket, last'.key) = Reads(fs, last'.bucket, last'.key)]_vars

---------------------------------------------------------------------------
(* List calls with any cursor *)

\* The cursors callers pass: none, the keys of the listing model (stored or not),
\* a string before all of them and a string after all of them.
Cursors == {<<>>, <<"a">>, <<"c">>} \cup ListKeys

\* The page sizes callers pass, a negative one among them
AnyPageSizes == -1 .. MaxPageSize

\* One ListObjects or ListObjectsV2 call.
ListAtCursor ==
    /\ MayRead
    /\ \E api \in ListAPIs, bucket \in Buckets, prefix \in ListPrefixes,
          cursor \in Cursors, maxKeys \in AnyPageSizes :
         \E r \in {ListCall(api, fs, bucket, prefix, cursor, maxKeys)} :
         last' = [op |-> api, bucket |-> bucket, prefix |-> prefix, cursor |-> cursor,
                  maxKeys |-> maxKeys, err |-> r.err, val |-> r.val]
    /\ UNCHANGED <<fs, now, nops, issued, procs, pager>>

NextCursor == ListAtCursor

SpecCursor == InitList /\ [][NextCursor]_vars

---------------------------------------------------------------------------
(* Properties of a page *)

Listed == last.op \in ListAPIs /\ last.err = ""

\* The stored keys with the prefix that are greater than the cursor, ascending.
KeysAfter(f, bucket, prefix, cursor) ==
    LET G == {key \in Matching(f, bucket, prefix) : StrLess(cursor, key)}
    IN  KeysOf(SortByKey({[key |-> k] : k \in G}))

\* C24 (cursor resume rule): for every cursor c, stored key or not, a listing
\* with cursor c returns a page whose first key is the smallest stored key with
\* the prefix that is strictly greater than c; no returned key is <= c; and when
\* no stored key is greater than c the page is empty and not truncated.
CursorResumes ==
    Listed =>
        LET keys == KeysOf(last.val.Objects)
            after == KeysAfter(fs, last.bucket, last.prefix, last.cursor)
        IN  /\ \A i \in 1 .. Len(keys) : StrLess(last.cursor, keys[i])
            /\ after # <<>> => (keys # <<>> /\ keys[1] = after[1])
            /\ after = <<>> => (keys = <<>> /\ ~last.val.IsTruncated)

PageShape ==
    Listed =>
        LET all == KeysAfter(fs, last.bucket, last.prefix, <<>>)
            total == Len(all)
            r == total - Len(KeysAfter(fs, last.bucket, last.prefix, last.cursor))
            maxKeys == EffectiveMaxKeys(last.maxKeys)
            keys == KeysOf(last.val.Objects)
        IN  /\ keys = SubSeq(all, r + 1, r + Min(maxKeys, total - r))
            /\ last.val.IsTruncated <=> (r + maxKeys < total)
            /\ keys # <<>> =>
                  (last.val.IsTruncated
                      <=> \E i \in 1 .. total : StrLess(keys[Len(keys)], all[i]))
            /\ ResponseCursor(last.op, last.val)
                  = (IF last.val.IsTruncated THEN keys[Len(keys)] ELSE <<>>)

---------------------------------------------------------------------------
(* Properties of the bounds of a range *)

\* A GetObjectRange call was made on an object that exists.
RangeOfExisting ==
    last.op = "GetObjectRange" /\ GetObject(fs, last.bucket, last.key).err = ""

UnsatisfiableIsInvalidRange ==
    RangeOfExisting =>
        LET size == Len(GetObject(fs, last.bucket, last.key).val.body)
        IN  ClampStart(last.start) > ClampEnd(last.end, size)
               => ReadErrorCode(last.err) = "InvalidRange"

---------------------------------------------------------------------------
(* Properties of overwrites *)

\* How often the key appears in the unpaged listing of the bucket
TimesListed(f, bucket, key) ==
    LET objects == ListObjects(f, bucket, <<>>, <<>>, 0).val.Objects
    IN  Cardinality({i \in 1 .. Len(objects) : objects[i].key = key})

---------------------------------------------------------------------------
(* Restart of the process *)

\* An engine that comes up without the sessions the directory holds.  (Compared
\* with NewFileSystemStorage below when restarts are checked.)
NewFileSystemStorageNoSessions(f) ==
    Ret([p \in {q \in DOMAIN f : \A i \in 1 .. Len(q) : q[i] # <<"multipart">>} |-> f[p]],
        "", NoVal)

\* NewFileSystemStorage(baseDir): os.MkdirAll(baseDir); the engine it returns
\* holds the name of the directory and nothing else.
NewFileSystemStorage(f) ==
    IF ~MkdirAllOK(f, Root)
    THEN Ret(f, "failed to create base directory", NoVal)
    ELSE Ret(MkdirAll(f, Root), "", NoVal)

\* The process is stopped with no call in flight and started again on the same
\* directory.
Restart(limit) ==
    /\ MayMutate(limit)
    /\ \E r \in {NewFileSystemStorage(fs)} :
         /\ fs' = r.fs
         /\ last' = [op |-> "NewFileSystemStorage", err |-> r.err]
    /\ nops' = nops + 1
    /\ UNCHANGED <<now, issued, procs, pager>>

RestartPutObject == PutObjectCall(MaxMultipartOps, MultipartKeys, PutRequests)
RestartCreate == CreateMultipartUploadCall(MaxMultipartOps, MultipartCreateRequests)
RestartUploadPart == UploadPartCall(MaxMultipartOps, MultipartKeys, Streams, UploadIDs)
RestartComplete == CompleteMultipartUploadCall(MaxMultipartOps, MultipartKeys, UploadIDs)
RestartAbort == AbortMultipartUploadCall(MaxMultipartOps, MultipartKeys, UploadIDs)
RestartProcess == Restart(MaxMultipartOps)

NextRestart ==
    \/ RestartPutObject
    \/ RestartCreate
    \/ RestartUploadPart
    \/ RestartComplete
    \/ RestartAbort
    \/ RestartProcess

SpecRestart == Init /\ [][NextRestart]_vars

\* The stored parts a completion request refers to are all there.
AllStored(f, bucket, uploadID, parts) ==
    \A n \in Referenced(parts) : IsFile(f, PartPath(bucket, uploadID, n))

\* What the engine started on f offers for a session that was open in f0: the
\* same part listing, further parts accepted, completion and abort possible.
SessionRecovered(f0, f, t, bucket, key, uploadID) ==
    /\ ListParts(f, bucket, key, uploadID).err = ""
    /\ ListParts(f, bucket, key, uploadID).val = ListParts(f0, bucket, key, uploadID).val
    /\ \A n \in PartNumbers :
          UploadPart(f, bucket, key, uploadID, n, Full(PayloadY)).err = ""
    /\ \A parts \in PartLists :
          /\ Outcome(CompleteMultipartUpload(f, t, bucket, key, uploadID, parts))
                = Outcome(CompleteMultipartUpload(f0, t, bucket, key, uploadID, parts))
          /\ AllStored(f0, bucket, uploadID, parts)
                => CompleteMultipartUpload(f, t, bucket, key, uploadID, parts).err = ""
    /\ AbortMultipartUpload(f, bucket, key, uploadID).err = ""

\* C28 (restart recovery): all engine state is durable: after a restart of the
\* process with no operation in flight every stored object is still readable
\* with the same bytes and metadata, and every open multipart session still lists
\* the same parts, accepts further parts and can be completed or aborted.
RestartRecovers ==
    [][Called("NewFileSystemStorage") =>
          /\ last'.err = ""
          /\ \A bucket \in Buckets :
                /\ AllReads(fs', bucket) = AllReads(fs, bucket)
                /\ \A key \in MultipartKeys, uploadID \in issued :
                      SessionExists(fs, bucket, uploadID)
                          => SessionRecovered(fs, fs', now, bucket, key, uploadID)]_vars

\* The process has been started again on a directory that holds an object and an
\* open session with one part.
RestartRecoversWitness ==
    /\ last.op = "NewFileSystemStorage"
    /\ nops = MaxMultipartOps
    /\ \E bucket \in Buckets, key \in MultipartKeys, uploadID \in issued :
          /\ GetObject(fs, bucket, key).err = ""
          /\ SessionExists(fs, bucket, uploadID)
          /\ Len(ListParts(fs, bucket, key, uploadID).val) = 1

\* C31: a listing called with maxKeys <= 0 behaves exactly like the same listing
\* called with maxKeys = 1000: same objects, same IsTruncated, same next cursor.
DefaultPageSize ==
    (Listed /\ last.maxKeys <= 0)
        => last.val = ListCall(last.op, fs, last.bucket, last.prefix, last.cursor,
                               1000).val

\* A listing with maxKeys = -1 returned all four stored keys, untruncated.
DefaultPageSizeWitness ==
    /\ Listed
    /\ last.maxKeys = -1
    /\ Len(last.val.Objects) = 4
    /\ ~last.val.IsTruncated

---------------------------------------------------------------------------
(* Properties of the published object and of part tags *)

\* The parts of the session as ListParts reports them, by part number
ListedPart(f, bucket, uploadID, n) ==
    LET parts == ListParts(f, bucket, <<>>, uploadID).val
    IN  {parts[i] : i \in {j \in 1 .. Len(parts) : parts[j].part_number = n}}

\* The sum of the sizes ListParts reports for the parts numbered in `numbers`
RECURSIVE SumOfSizes(_, _, _, _)
SumOfSizes(f, bucket, uploadID, numbers) ==
    IF numbers = {} THEN 0
    ELSE LET n == CHOOSE x \in numbers : TRUE IN
         (CHOOSE p \in ListedPart(f, bucket, uploadID, n) : TRUE).size
             + SumOfSizes(f, bucket, uploadID, numbers \ {n})

\* C32: the object published by a successful CompleteMultipartUpload is built
\* from the referenced parts only: its recorded size equals the sum of the stored
\* sizes of the parts in the caller's list and equals the length of the object's
\* bytes; parts uploaded but not referenced contribute no bytes and are discarded
\* with the session.
BuiltFromReferencedParts ==
    [][(Called("CompleteMultipartUpload") /\ last'.err = "")
          => LET get == GetObject(fs', last'.bucket, last'.key)
                 refs == Referenced(last'.parts)
             IN  /\ \A n \in refs : ListedPart(fs, last'.bucket, last'.uploadID, n) # {}
                 /\ get.err = ""
                 /\ get.val.meta.size = SumOfSizes(fs, last'.bucket, last'.uploadID, refs)
                 /\ get.val.meta.size = Len(get.val.body)
                 /\ get.val.body = ConcatAscending(fs, last'.bucket, last'.uploadID, refs)
                 /\ SessionFiles(fs', last'.bucket, last'.uploadID) = {}]_vars

\* C33: the entity tag returned by UploadPart depends only on the part's bytes:
\* uploading the same bytes under any upload id and any part number yields the
\* same tag, and the returned tag is the one stored for the part and reported by
\* ListParts.  Stated on steps: a successful upload returns the tag of its bytes
\* (the same as the preceding successful upload when the bytes are the same, a
\* different one when they differ), and ListParts reports the returned record.
PartTagOfContent ==
    [][(Called("UploadPart") /\ last'.err = "")
          => /\ ListedPart(fs', last'.bucket, last'.uploadID, last'.partNumber)
                   = {last'.val}
             /\ last'.val.etag = Md5Hex(last'.data.bytes)
             /\ (last.op = "UploadPart" /\ last.err = "")
                   => ((last'.data.bytes = last.data.bytes)
                          <=> (last'.val.etag = last.val.etag))]_vars

\* The same bytes were uploaded as part 1 of one session and then as part 2 of
\* another, with the same tag.
PartTagOfContentWitness ==
    /\ last.op = "UploadPart"
    /\ last.err = ""
    /\ last.partNumber = 2
    /\ last.data.bytes = PayloadX
    /\ \E uploadID \in issued \ {last.uploadID} :
          /\ ListedPart(fs, last.bucket, uploadID, 1) # {}
          /\ \A p \in ListedPart(fs, last.bucket, uploadID, 1) : p.etag = last.val.etag
    /\ ListedPart(fs, last.bucket, last.uploadID, 2) = {last.val}

---------------------------------------------------------------------------
(* Paging through a bucket while other clients delete keys *)

\* Another client deletes a key between two pages.
PagingDelete ==
    /\ nops < MaxOps
    /\ pager.state = "paging"
    /\ \E bucket \in Buckets, key \in ListKeys :
         \E r \in {DeleteObject(fs, bucket, key)} :
         /\ fs' = r.fs
         /\ last' = [op |-> "DeleteObject", bucket |-> bucket, key |-> key,
                     err |-> r.err, val |-> r.val]
    /\ nops' = nops + 1
    /\ UNCHANGED <<now, issued, procs, pager>>

NextPaging ==
    \/ FirstPage
    \/ NextPage
    \/ PagingDelete

\* The paging client goes on asking for the next page while the listing is
\* truncated.
\* The paging client has a call to make: its last page was truncated.
PagerWaiting == pager.state = "paging" /\ pager.truncated

\* The client keeps calling: weak fairness of NextPage, whose enabling condition
\* is PagerWaiting, written out.
ClientKeepsPaging == []<>(~PagerWaiting) \/ []<><<NextPage>>_vars

SpecPaging == InitList /\ [][NextPaging]_vars /\ ClientKeepsPaging

\* A waiting client's next call is a step: it changes the record of the last call
\* or the client's position.
NextPageIsAStep ==
    PagerWaiting =>
        LET r == ListCall(pager.api, fs, pager.bucket, pager.prefix, pager.cursor,
                          pager.maxKeys)
        IN  \/ last # [op |-> pager.api, bucket |-> pager.bucket, prefix |-> pager.prefix,
                       cursor |-> pager.cursor, maxKeys |-> pager.maxKeys,
                       err |-> r.err, val |-> r.val]
            \/ pager.cursor # ResponseCursor(pager.api, r.val)
            \/ pager.truncated # r.val.IsTruncated
            \/ KeysOf(r.val.Objects) # <<>>

\* The keys of the page a NextPage step has added
NewKeys == SubSeq(pager'.keys, Len(pager.keys) + 1, Len(pager'.keys))

\* Every key of a page is greater than the cursor the page was asked with.
PagesAscend ==
    [][(pager.state = "paging" /\ pager' # pager)
          => \A i \in 1 .. Len(NewKeys) : StrLess(pager.cursor, NewKeys[i])]_vars

\* The client reaches a page that is not truncated.
PagingEnds == (pager.state = "paging") ~> (pager.state = "paging" /\ ~pager.truncated)

\* C34: pagination is never wedged by deletions: when a client pages through a
\* bucket by following the returned cursors while other clients delete keys
\* between the pages (finitely many deletions, no insertions), the client reaches
\* a page with IsTruncated = false after finitely many calls and is never handed
\* a key less than or equal to a cursor it has already passed.
NeverWedged == PagingEnds /\ PagesAscend

\* ---------------------------------------------------------------------------
\* A failed completion and the object at its target
\* ---------------------------------------------------------------------------

\* C35 (failed completion, target object): a CompleteMultipartUpload that fails
\* leaves the object stored at the target (bucket, key) unchanged: GetObject and
\* HeadObject of the key return after the call what they returned before it,
\* the same bytes and metadata or the same absence.
FailedCompleteKeepsObject ==
    [][(Called("CompleteMultipartUpload") /\ last'.err # "")
           => Reads(fs', last'.bucket, last'.key) = Reads(fs, last'.bucket, last'.key)]_vars

\* ---------------------------------------------------------------------------
\* What an abort leaves alone
\* ---------------------------------------------------------------------------

\* The session differs between the directory trees f and g: in its files, their
\* contents, or what ListParts returns for it.
SessionSame(f, g, bucket, key, uploadID) ==
    /\ SessionFiles(g, bucket, uploadID) = SessionFiles(f, bucket, uploadID)
    /\ \A p \in SessionFiles(f, bucket, uploadID) : g[p] = f[p]
    /\ Outcome(ListParts(g, bucket, key, uploadID)) = Outcome(ListParts(f, bucket, key, uploadID))

\* C36 (abort, frame): AbortMultipartUpload(b, k, U) affects only session U,
\* for every value of U, the empty string and ids that name no session
\* included: every other session of the bucket keeps its metadata and parts,
\* and every stored object keeps its bytes and metadata.
AbortTouchesOnlyItsSession ==
    [][Called("AbortMultipartUpload")
           => /\ \A u \in issued \ {last'.uploadID} :
                     SessionSame(fs, fs', last'.bucket, last'.key, u)
              /\ \A bucket \in Buckets, key \in MultipartKeys \cup {KeyUploadJson} :
                     Reads(fs', bucket, key) = Reads(fs, bucket, key)]_vars

\* ---------------------------------------------------------------------------
\* Keys as names: what a put or a delete of one key does to the others
\* ---------------------------------------------------------------------------

\* Keys with a ".." segment and with an empty segment.
KeyDotDot == <<"a", "/", "..", "/", "b">>
KeyEmptySegment == <<"a", "/", "/", "b">>
AnyKeys == Keys \cup {KeyDotDot, KeyEmptySegment}

KeysPutObject == PutObjectCall(MaxOps, AnyKeys, PutRequests)
KeysDeleteObject == DeleteObjectCall(MaxOps, AnyKeys)
KeysGetObject == GetObjectCall(AnyKeys)
KeysHeadObject == HeadObjectCall(AnyKeys)

NextKeys ==
    \/ KeysPutObject
    \/ KeysDeleteObject
    \/ KeysGetObject
    \/ KeysHeadObject

SpecKeys == Init /\ [][NextKeys]_vars

\* Whether an object is stored at (bucket, key) in the directory tree f, and its
\* bytes and metadata if one is: what GetObject and HeadObject return when they
\* succeed, and nothing when they fail.
Stored(f, bucket, key) ==
    LET rd == Reads(f, bucket, key) IN
    [get |-> IF rd.get.err = "" THEN <<rd.get.val>> ELSE <<>>,
     head |-> IF rd.head.err = "" THEN <<rd.head.val>> ELSE <<>>]

\* C37 (put and delete, frame): PutObject(b, k) and DeleteObject(b, k) change only
\* the object at (b, k): for every other bucket/key pair whether an object is
\* stored there, and its bytes and metadata, are the same after the call as
\* before, for every key string k, keys with "/", ".." or empty segments included.
OtherKeysUntouched ==
    [][(Called("PutObject") \/ Called("DeleteObject"))
           => \A bucket \in Buckets, key \in AnyKeys :
                  (bucket # last'.bucket \/ key # last'.key)
                      => Stored(fs', bucket, key) = Stored(fs, bucket, key)]_vars

\* C38 (keys are independent names): in every reachable state PutObject(b, k)
\* with a readable payload succeeds for every key k, whatever other keys are
\* stored or were stored and deleted in the bucket.
PutAlwaysSucceeds ==
    \A bucket \in Buckets, key \in AnyKeys, rq \in PutRequests, t \in ClockReadings(now) :
        rq.data.fail = -1
            => PutObject(fs, t, bucket, key, rq.data, rq.attrs.md, rq.attrs.ct).err = ""

\* ---------------------------------------------------------------------------
\* Batch delete
\* ---------------------------------------------------------------------------

\* FileSystemStorage.DeleteObjects: DeleteObject on every key in turn; the keys
\* deleted, and the errors of the others in the order they occurred.
RECURSIVE DeleteObjects(_, _, _)
DeleteObjects(f, bucket, keys) ==
    IF keys = <<>> THEN [fs |-> f, deleted |-> <<>>, errors |-> <<>>]
    ELSE LET r == DeleteObject(f, bucket, Head(keys))
             rest == DeleteObjects(r.fs, bucket, Tail(keys))
         IN  IF r.err # ""
             THEN [rest EXCEPT !.errors = <<r.err>> \o rest.errors]
             ELSE [rest EXCEPT !.deleted = <<Head(keys)>> \o rest.deleted]

\* handleBatchDelete, for a request body that decodes to the key list: the
\* DeleteResult it encodes.  The i-th error is given the i-th key of the request.
BatchDeleteResult(keys, r) ==
    [Deleted |-> r.deleted,
     Errors |-> [i \in 1 .. Len(r.errors) |->
                    [Key |-> keys[i], Code |-> "InternalError", Message |-> r.errors[i]]]]

MaxBatch == 2
\* The key lists of batch requests: up to MaxBatch keys, repeats allowed.
KeyLists == UNION {[1 .. n -> Keys] : n \in 0 .. MaxBatch}

BatchDeleteCall(limit, lists) ==
    /\ MayMutate(limit)
    /\ \E bucket \in Buckets, keys \in lists :
         \E r \in {DeleteObjects(fs, bucket, keys)} :
         /\ fs' = r.fs
         /\ last' = [op |-> "DeleteObjects", bucket |-> bucket, keys |-> keys,
                     err |-> "", val |-> BatchDeleteResult(keys, r)]
    /\ nops' = nops + 1
    /\ UNCHANGED <<now, issued, procs, pager>>

BatchPutObject == PutObjectCall(MaxOps, Keys, PutRequests)
BatchDelete == BatchDeleteCall(MaxOps, KeyLists)
BatchHeadObject == HeadObjectCall(Keys)

NextBatch ==
    \/ BatchPutObject
    \/ BatchDelete
    \/ BatchHeadObject

SpecBatch == Init /\ [][NextBatch]_vars

\* The directory tree after DeleteObject of the first n keys of the list.
RECURSIVE StoreAfter(_, _, _, _)
StoreAfter(f, bucket, keys, n) ==
    IF n = 0 THEN f
    ELSE DeleteObject(StoreAfter(f, bucket, keys, n - 1), bucket, keys[n]).fs

\* The deletion of the i-th key of the list failed.
FailedAt(f, bucket, keys, i) ==
    DeleteObject(StoreAfter(f, bucket, keys, i - 1), bucket, keys[i]).err # ""

\* How many entries of the sequence satisfy the test.
Count(seq, Test(_)) == Cardinality({i \in DOMAIN seq : Test(seq[i])})

\* C39 (batch delete): every requested key is accounted for exactly once, as
\* deleted or as an error, never both and never neither (a key requested n times
\* is reported n times); every error of the response names a key whose deletion
\* failed; and a failure on one key does not stop the deletion of the keys after
\* it: every key whose own deletion did not fail is reported deleted and its
\* object file is gone.
BatchAccountsForEveryKey ==
    [][Called("DeleteObjects")
           => LET keys == last'.keys
                  res == last'.val
              IN  /\ \A key \in Keys :
                         Count(keys, LAMBDA k : k = key)
                             = Count(res.Deleted, LAMBDA k : k = key)
                                 + Count(res.Errors, LAMBDA e : e.Key = key)
                  /\ \A key \in Keys :
                         ~(/\ \E i \in DOMAIN res.Deleted : res.Deleted[i] = key
                           /\ \E i \in DOMAIN res.Errors : res.Errors[i].Key = key
                           /\ Count(keys, LAMBDA k : k = key) = 1)
                  /\ \A j \in DOMAIN res.Errors :
                         \E i \in DOMAIN keys :
                             /\ keys[i] = res.Errors[j].Key
                             /\ FailedAt(fs, last'.bucket, keys, i)
                  /\ \A i \in DOMAIN keys :
                         ~FailedAt(fs, last'.bucket, keys, i)
                             => /\ \E d \in DOMAIN res.Deleted : res.Deleted[d] = keys[i]
                                /\ ~Exists(fs', ObjectPath(last'.bucket, keys[i]))]_vars

=============================================================================
